---- MODULE Spec2Model ----
(***************************************************************************)
(* The job execution engine of the DataHive worker: JobManager (start,    *)
(* jobLoop, processJob, stop), the ToolRegistry dispatch it uses, the     *)
(* tools' results and the ApiClient / ConfigManager collaborators.        *)
(*                                                                         *)
(* Every `await` of JobManager is a suspension point of the model: a loop *)
(* instance sits in a pc that names the call it awaits, and one action    *)
(* runs the code from the return of that call to the next `await`.        *)
(***************************************************************************)
EXTENDS Integers, Sequences, FiniteSets, TLC

\* ---------------------------------------------------------------- bounds
\* Longest step list of a rule document the server hands out.
MaxSteps == 3
\* Number of start() calls the environment makes in the lifecycle runs.
MaxStarts == 2

\* ------------------------------------------------------ program constants
\* CONFIG.JOB_INTERVAL, the default of ConfigManager.config.jobInterval.
JOB_INTERVAL == 60000
\* fetchConfiguration: seconds to milliseconds, and the 5 s buffer.
MS_PER_SECOND == 1000
INTERVAL_BUFFER == 5000

VARIABLES
    isRunning,      \* JobManager.isRunning
    jobInterval,    \* ConfigManager.config.jobInterval
    pingTimers,     \* number of setInterval ping timers alive
    loop,           \* loop[l]: the l-th start() call and the jobLoop it launched
    startsLeft,     \* start() calls the environment still makes
    lastStart,      \* what the latest start() call did: "none", "launched", "ignored"
    workload,       \* which jobs the API hands out: "pipeline", "lifecycle", "variables"
    lastConfig,     \* what the latest apiClient.getConfiguration call settled with
    lastFetch,      \* ConfigManager.lastFetch: 0 for null, else the start() call that set it
    server,         \* the configuration the server holds, when a run fixes it
    tools,          \* ToolRegistry.tools: the Map's entries in insertion order
    regCall,        \* the latest call made on the ToolRegistry and how it ended
    subst,          \* the latest call of replaceVariables and what it returned
    offscreen       \* the browser of the OffscreenTool and the execute() call in flight

\* The state the unit-level runs of ToolRegistry, replaceVariables and the
\* tools act on.
unitVars == <<tools, regCall, subst, offscreen>>
\* The state of the running worker.
workerVars ==
    <<isRunning, jobInterval, pingTimers, loop, startsLeft, lastStart, workload, lastConfig,
      lastFetch, server>>

vars == <<isRunning, jobInterval, pingTimers, loop, startsLeft, lastStart, workload,
          lastConfig, lastFetch, server, tools, regCall, subst, offscreen>>

Loops == 1..MaxStarts

\* ------------------------------------------------------------ JS helpers
\* String.prototype.includes
Includes(s, sub) ==
    \E i \in 1..(Len(s) - Len(sub) + 1) : SubSeq(s, i, i + Len(sub) - 1) = sub

\* JS truthiness of the values a ToolResult.result takes in the model:
\* null and false are falsy, response / page / true objects are truthy.
Truthy(v) == v \notin {"null", "false"}

RECURSIVE Join(_, _)
\* Array.prototype.join
Join(names, sep) ==
    IF names = <<>> THEN ""
    ELSE IF Len(names) = 1 THEN names[1]
    ELSE names[1] \o sep \o Join(Tail(names), sep)

\* ------------------------------------------------------ replaceVariables
\* JavaScript values as they come out of JSON / YAML: strings, numbers, null,
\* arrays and plain objects (keys in insertion order, items[i] under keys[i]).
Str(s) == [t |-> "string", s |-> s, n |-> 0, keys |-> <<>>, items |-> <<>>]
Num(n) == [t |-> "number", s |-> "", n |-> n, keys |-> <<>>, items |-> <<>>]
Null == [t |-> "null", s |-> "", n |-> 0, keys |-> <<>>, items |-> <<>>]
Undefined == [t |-> "undefined", s |-> "", n |-> 0, keys |-> <<>>, items |-> <<>>]
Arr(items) == [t |-> "array", s |-> "", n |-> 0, keys |-> <<>>, items |-> items]
Obj(keys, items) == [t |-> "object", s |-> "", n |-> 0, keys |-> keys, items |-> items]

\* The truthiness of a value: null, undefined, the empty string and 0 are
\* falsy.
ToBoolean(v) ==
    ~ \/ v.t \in {"null", "undefined"}
      \/ v.t = "string" /\ v.s = ""
      \/ v.t = "number" /\ v.n = 0

\* variables.hasOwnProperty(key), variables[key]
HasOwnProperty(o, key) == \E i \in 1..Len(o.keys) : o.keys[i] = key
Prop(o, key) == o.items[CHOOSE i \in 1..Len(o.keys) : o.keys[i] = key]

At(s, i) == SubSeq(s, i, i)
StartsWith(s, i, lit) == i + Len(lit) - 1 <= Len(s) /\ SubSeq(s, i, i + Len(lit) - 1) = lit
\* \s of the regular expression, and the characters `.` does not match.
IsSpace(c) == c \in {" ", "\t", "\n", "\r"}
IsLineTerminator(c) == c \in {"\n", "\r"}

RECURSIVE SkipSpaces(_, _)
\* \s* : the index of the first character at or after i that is no space.
SkipSpaces(s, i) ==
    IF i <= Len(s) /\ IsSpace(At(s, i)) THEN SkipSpaces(s, i + 1) ELSE i

RECURSIVE SkipSpacesBack(_, _)
SkipSpacesBack(s, i) ==
    IF i >= 1 /\ IsSpace(At(s, i)) THEN SkipSpacesBack(s, i - 1) ELSE i

\* String.prototype.trim
Trim(s) ==
    LET a == SkipSpaces(s, 1)
        b == SkipSpacesBack(s, Len(s))
    IN  IF a > b THEN "" ELSE SubSeq(s, a, b)

NoMatch == [ok |-> FALSE, key |-> "", next |-> 0]

RECURSIVE CaptureKey(_, _, _)
\* (.*?)\s*\}\} from index k0: the shortest run of non-terminator characters
\* k0..p-1 after which optional spaces and "}}" follow.
CaptureKey(s, k0, p) ==
    LET q == SkipSpaces(s, p)
    IN  IF StartsWith(s, q, "}}")
        THEN [ok |-> TRUE, key |-> SubSeq(s, k0, p - 1), next |-> q + 2]
        ELSE IF p <= Len(s) /\ ~IsLineTerminator(At(s, p)) THEN CaptureKey(s, k0, p + 1)
        ELSE NoMatch

\* One attempt of /\{\{\s*vars\.(.*?)\s*\}\}/ at index i: whether it matches,
\* the captured group, and the index after the match.
MatchAt(s, i) ==
    IF ~StartsWith(s, i, "{{") THEN NoMatch
    ELSE LET j == SkipSpaces(s, i + 2)
         IN  IF StartsWith(s, j, "vars.") THEN CaptureKey(s, j + 5, j + 5) ELSE NoMatch

RECURSIVE Digits(_)
\* Number to string, for the non-negative integers of the model.
Digits(n) ==
    IF n < 10 THEN At("0123456789", n + 1)
    ELSE Digits(n \div 10) \o At("0123456789", (n % 10) + 1)

RECURSIVE StringOf(_)
\* The string String.prototype.replace makes of what the callback returns.
StringOf(v) ==
    IF v.t = "string" THEN v.s
    ELSE IF v.t = "number" THEN Digits(v.n)
    ELSE IF v.t = "null" THEN "null"
    ELSE IF v.t = "undefined" THEN "undefined"
    ELSE IF v.t = "array"
    THEN Join([i \in 1..Len(v.items) |->
                 IF v.items[i].t = "null" THEN "" ELSE StringOf(v.items[i])], ",")
    ELSE "[object Object]"

\* The callback of replace: the variable's value, or the placeholder rebuilt
\* from the trimmed key when the variable is not known.
Replacement(key, variables) ==
    LET trimmedKey == Trim(key)
    IN  IF HasOwnProperty(variables, trimmedKey) THEN StringOf(Prop(variables, trimmedKey))
        ELSE "{{vars." \o trimmedKey \o "}}"

RECURSIVE ReplaceFrom(_, _, _)
\* The global replace from index i on: matches are found left to right in the
\* target, each search resuming after the previous match.
ReplaceFrom(s, i, variables) ==
    IF i > Len(s) THEN ""
    ELSE LET m == MatchAt(s, i)
         IN  IF m.ok THEN Replacement(m.key, variables) \o ReplaceFrom(s, m.next, variables)
             ELSE At(s, i) \o ReplaceFrom(s, i + 1, variables)

RECURSIVE Warnings(_, _, _)
\* logger.warn(`Variable not found: ${trimmedKey}`), one per unknown match.
Warnings(s, i, variables) ==
    IF i > Len(s) THEN <<>>
    ELSE LET m == MatchAt(s, i)
         IN  IF m.ok
             THEN (IF HasOwnProperty(variables, Trim(m.key)) THEN <<>>
                   ELSE <<"Variable not found: " \o Trim(m.key)>>)
                      \o Warnings(s, m.next, variables)
             ELSE Warnings(s, i + 1, variables)

RECURSIVE MatchedKeys(_, _)
\* The trimmed keys of the matches the global replace finds from index i on.
MatchedKeys(s, i) ==
    IF i > Len(s) THEN <<>>
    ELSE LET m == MatchAt(s, i)
         IN  IF m.ok THEN <<Trim(m.key)>> \o MatchedKeys(s, m.next)
             ELSE MatchedKeys(s, i + 1)

\* Mutant of ReplaceString: the result is scanned for placeholders again.
ReplaceStringAgain(s, variables) == ReplaceFrom(ReplaceFrom(s, 1, variables), 1, variables)

\* target.replace(/\{\{\s*vars\.(.*?)\s*\}\}/g, callback)
ReplaceString(s, variables) == ReplaceFrom(s, 1, variables)

RECURSIVE ReplaceVariablesLeaves(_, _)
\* Mutant of ReplaceVariables: every leaf is turned into a string and
\* substituted.
ReplaceVariablesLeaves(target, variables) ==
    IF target.t = "array"
    THEN Arr([i \in 1..Len(target.items) |->
                 ReplaceVariablesLeaves(target.items[i], variables)])
    ELSE IF target.t = "object"
    THEN Obj(target.keys, [i \in 1..Len(target.items) |->
                 ReplaceVariablesLeaves(target.items[i], variables)])
    ELSE Str(ReplaceString(StringOf(target), variables))

RECURSIVE ReplaceVariables(_, _)
\* JobManager.replaceVariables
ReplaceVariables(target, variables) ==
    IF target.t = "string" THEN Str(ReplaceString(target.s, variables))
    ELSE IF target.t = "array"
    THEN Arr([i \in 1..Len(target.items) |-> ReplaceVariables(target.items[i], variables)])
    ELSE IF target.t = "object"
    THEN Obj(target.keys,
             [i \in 1..Len(target.items) |-> ReplaceVariables(target.items[i], variables)])
    ELSE target

RECURSIVE AllWarnings(_, _)
\* The warnings of a whole call, in the order of the traversal.
AllWarnings(target, variables) ==
    IF target.t = "string" THEN Warnings(target.s, 1, variables)
    ELSE IF target.t \in {"array", "object"} /\ target.items # <<>>
    THEN AllWarnings(target.items[1], variables)
            \o AllWarnings([target EXCEPT !.items = Tail(@), !.keys = <<>>], variables)
    ELSE <<>>

\* subst: the arguments of the call (target as the caller holds it after the
\* call, given as it was passed), whether the call returned, what it returned
\* and the warnings it logged.
NoSubst ==
    [target |-> Null, given |-> Null, variables |-> Obj(<<>>, <<>>), returned |-> FALSE,
     result |-> Null, warnings |-> <<>>]

\* ----------------------------------------------------------------- steps
\* A step of a rule document: the tool it names, whether the tool's validate
\* accepts its parameters, for a conditional-gate whether the condition holds
\* and the throwOnFailure flag, and the strings url and output as written
\* ("" when the step has none).
MkStep(use, valid, cond, tof) ==
    [use |-> use, valid |-> valid, cond |-> cond, throwOnFailure |-> tof,
     url |-> "", output |-> ""]

FetchStep     == [MkStep("fetch", TRUE, TRUE, TRUE) EXCEPT !.url = "https://h/429"]
FetchNoUrl    == MkStep("fetch", FALSE, TRUE, TRUE)
GatePass      == MkStep("conditional-gate", TRUE, TRUE, TRUE)
GateStop      == MkStep("conditional-gate", TRUE, FALSE, FALSE)
GateThrow     == MkStep("conditional-gate", TRUE, FALSE, TRUE)
UnknownStep   == MkStep("bogus", TRUE, TRUE, TRUE)
OffscreenArgs == MkStep("offscreen", TRUE, TRUE, TRUE)

\* Steps that use variables: a fetch that names an output key, a fetch whose
\* url names that key, and a fetch whose url names a job variable.
FetchOut        == [FetchStep EXCEPT !.url = "https://h/u", !.output = "userData"]
FetchUsesOutput == [FetchStep EXCEPT !.url = "https://h/{{vars.userData}}"]
FetchUsesId     == [FetchStep EXCEPT !.url = "https://h/{{ vars.id }}"]
FetchSearch     == [FetchStep EXCEPT !.url = "https://h/search?q={{ vars.q }}"]
NoStep          == MkStep("", TRUE, TRUE, TRUE)

StepKinds == {FetchStep, FetchNoUrl, GatePass, GateStop, GateThrow, UnknownStep}
VarStepKinds == {FetchOut, FetchUsesOutput, FetchUsesId, GatePass}

StepSeqs == UNION {[1..k -> StepKinds] : k \in 0..MaxSteps}
VarStepSeqs == UNION {[1..k -> VarStepKinds] : k \in 1..MaxSteps}

\* ------------------------------------------------------------------ jobs
\* The url a job without one of its own is given in the pools.
DefaultUrl == Str("https://h/p")

\* vars, variables, params: the job's fields of these names, Null when the
\* job has none. url: job.url, Undefined when the job has none.
MkJob(hasRules, yamlOk, steps, type, hasUrl) ==
    [hasRules |-> hasRules, yamlOk |-> yamlOk, steps |-> steps,
     type |-> type, hasUrl |-> hasUrl,
     url |-> IF hasUrl THEN DefaultUrl ELSE Undefined,
     vars |-> Null, variables |-> Null, params |-> Null]

\* job.params?.url || job.url
LegacyUrl(job) ==
    IF /\ job.params.t = "object"
       /\ HasOwnProperty(job.params, "url")
       /\ ToBoolean(Prop(job.params, "url"))
    THEN Prop(job.params, "url")
    ELSE job.url

\* const variables = job.vars || job.variables || job.params || {}
JobVariables(job) ==
    IF job.vars # Null THEN job.vars
    ELSE IF job.variables # Null THEN job.variables
    ELSE IF job.params # Null THEN job.params
    ELSE Obj(<<>>, <<>>)

NoJob == MkJob(FALSE, FALSE, <<>>, "none", FALSE)

JobTypes == {"offscreen", "other"}

\* Jobs with a rule document, a rule document that does not parse, and
\* legacy jobs without one.
JobPool ==
    {MkJob(TRUE, TRUE, s, t, TRUE) : s \in StepSeqs, t \in JobTypes}
    \cup {MkJob(TRUE, FALSE, <<>>, "other", TRUE)}
    \cup {MkJob(FALSE, TRUE, <<>>, t, u) : t \in JobTypes, u \in BOOLEAN}

\* The jobs of the lifecycle runs: one pipeline job of each outcome and one
\* legacy job.
SmallPool ==
    {MkJob(TRUE, TRUE, <<FetchStep>>, "other", TRUE),
     MkJob(FALSE, TRUE, <<>>, "offscreen", TRUE)}

\* The variable fields a job may come with: each of the three alone, vars
\* together with variables (one naming a step's output key), and none.
VarFields ==
    {[vars |-> Obj(<<"id">>, <<Str("7")>>), variables |-> Null, params |-> Null],
     [vars |-> Null, variables |-> Obj(<<"id">>, <<Str("8")>>), params |-> Null],
     [vars |-> Null, variables |-> Null, params |-> Obj(<<"id">>, <<Num(9)>>)],
     [vars |-> Obj(<<"userData">>, <<Str("U")>>),
      variables |-> Obj(<<"id">>, <<Str("8")>>), params |-> Null],
     [vars |-> Null, variables |-> Null, params |-> Null]}

\* Legacy jobs whose url has placeholders: one that names a variable of the
\* job, one that names none, one whose variable is the empty string, one
\* whose url comes from params, and one of no recognized type.
LegacyVarJobs ==
    {[MkJob(FALSE, TRUE, <<>>, "offscreen", TRUE) EXCEPT
         !.url = Str("https://h/{{ vars.q }}"), !.vars = Obj(<<"q">>, <<Str("shoes")>>)],
     [MkJob(FALSE, TRUE, <<>>, "fetch-and-extract", TRUE) EXCEPT
         !.url = Str("https://h/{{vars.q}}"), !.variables = Obj(<<"id">>, <<Str("8")>>)],
     [MkJob(FALSE, TRUE, <<>>, "offscreen", TRUE) EXCEPT
         !.url = Str("{{vars.q}}"), !.vars = Obj(<<"q">>, <<Str("")>>)],
     [MkJob(FALSE, TRUE, <<>>, "offscreen", FALSE) EXCEPT
         !.params = Obj(<<"url", "q">>, <<Str("https://h/{{vars.q}}"), Num(9)>>)],
     [MkJob(FALSE, TRUE, <<>>, "other", TRUE) EXCEPT
         !.url = Str("https://h/{{vars.q}}"), !.vars = Obj(<<"q">>, <<Str("shoes")>>)]}

\* A job whose rule document is one fetch step with a placeholder in its url
\* and whose vars define the variable.
SearchJob ==
    [MkJob(TRUE, TRUE, <<FetchSearch>>, "other", TRUE) EXCEPT
        !.vars = Obj(<<"q">>, <<Str("shoes")>>)]

\* The jobs of the runs with variables: the jobs of the lifecycle runs and
\* pipelines of steps that produce and name variables.
VarPool ==
    SmallPool \cup LegacyVarJobs \cup {SearchJob} \cup
    {[MkJob(TRUE, TRUE, s, "other", TRUE) EXCEPT
         !.vars = f.vars, !.variables = f.variables, !.params = f.params] :
       s \in VarStepSeqs, f \in VarFields}

\* The jobs the API may hand out on a poll.
ServerJobs ==
    IF workload = "pipeline" THEN JobPool
    ELSE IF workload = "variables" THEN VarPool
    ELSE SmallPool

\* ------------------------------------------------------- tools, registry
\* What a tool's execute settles with: a ToolResult (output is the key of its
\* output mapping, "" when it has none) or an error.
Return(r, c) ==
    [kind |-> "return", result |-> r, shouldContinue |-> c, message |-> "", output |-> ""]
Throw(m) ==
    [kind |-> "throw", result |-> "null", shouldContinue |-> TRUE, message |-> m,
     output |-> ""]

\* JobManager.registerTools
RegisteredTools == {"conditional-gate", "fetch", "offscreen", "fetch-and-extract"}

\* The collaborator registerTools hands to OffscreenTool: the Scraper object.
OffscreenBrowser == "scraper"
\* Only a puppeteer Browser has newPage(); Scraper has init, createPage,
\* extractData and close.
SupportsNewPage(b) == b = "puppeteer"

ConditionalGateExecute(step) ==
    IF step.cond THEN {Return("true", TRUE)}
    ELSE IF step.throwOnFailure THEN {Throw("Condition failed")}
    ELSE {Return("false", FALSE)}

FetchExecute(step) ==
    {[Return("resp200", TRUE) EXCEPT !.output = step.output],
     Throw("Host not found: " \o step.url),
     Throw("Request timeout after 30000ms")}

OffscreenExecute(step) ==
    IF OffscreenBrowser = "null"
    THEN {Throw("Browser not initialized. Call setBrowser() first.")}
    ELSE IF ~SupportsNewPage(OffscreenBrowser)
    THEN {Throw("this.browser.newPage is not a function")}
    ELSE {Return("page", TRUE), Throw("Navigation timeout")}

FetchAndExtractExecute(step) ==
    {Return("extracted", TRUE), Throw("Response is not HTML/text")}

ToolExecute(name, step) ==
    CASE name = "conditional-gate" -> ConditionalGateExecute(step)
      [] name = "fetch" -> FetchExecute(step)
      [] name = "offscreen" -> OffscreenExecute(step)
      [] OTHER -> FetchAndExtractExecute(step)

ToolValidate(name, step) == step.valid

ValidationMessage(name) ==
    IF name = "conditional-gate" THEN "Missing required parameter: rule"
    ELSE "Missing required parameter: url"

NotFoundMessage(name) ==
    "Tool '" \o name \o "' not found. Available tools: conditional-gate, fetch, offscreen, fetch-and-extract"

\* ToolRegistry.execute: get, validate, execute. The set of outcomes the
\* awaited promise can settle with.
ToolRegistryExecute(name, step) ==
    IF name \notin RegisteredTools THEN {Throw(NotFoundMessage(name))}
    ELSE IF ~ToolValidate(name, step) THEN {Throw(ValidationMessage(name))}
    ELSE ToolExecute(name, step)

\* ---------------------------------------------------- ConditionalGateTool
\* Object.values(OPERATORS)
OPERATORS ==
    <<"EQUALS", "NOT_EQUALS", "CONTAINS", "NOT_CONTAINS", "GREATER_THAN", "LESS_THAN",
      "GREATER_THAN_OR_EQUAL", "LESS_THAN_OR_EQUAL", "MATCHES_PATTERN", "IS_EMPTY",
      "IS_NOT_EMPTY">>
OperatorSet == {OPERATORS[i] : i \in 1..Len(OPERATORS)}

\* typeof
TypeOf(v) ==
    IF v.t \in {"null", "array", "object"} THEN "object" ELSE v.t

RECURSIVE IndexIn(_, _, _)
\* The index of character c in s at or after i, 0 when it is not there.
IndexIn(s, c, i) ==
    IF i > Len(s) THEN 0 ELSE IF At(s, i) = c THEN i ELSE IndexIn(s, c, i + 1)

RECURSIVE ToLowerCase(_)
\* String.prototype.toLowerCase
ToLowerCase(s) ==
    IF s = "" THEN ""
    ELSE LET k == IndexIn("ABCDEFGHIJKLMNOPQRSTUVWXYZ", At(s, 1), 1)
         IN  (IF k = 0 THEN At(s, 1) ELSE At("abcdefghijklmnopqrstuvwxyz", k))
                \o ToLowerCase(SubSeq(s, 2, Len(s)))

\* normalize of evaluate
Normalize(v, caseSensitive) ==
    IF ~caseSensitive /\ v.t = "string" THEN Str(ToLowerCase(v.s)) ELSE v

\* a === b for a rule's value and expected: primitives by type and value, two
\* arrays or objects (distinct objects of the parsed document) never.
StrictEquals(a, b) ==
    /\ a.t = b.t
    /\ a.t \notin {"array", "object"}
    /\ a = b

NaN == [nan |-> TRUE, n |-> 0]
Finite(n) == [nan |-> FALSE, n |-> n]

RECURSIVE ParseDigits(_, _)
\* The value of a string of decimal digits, NaN when another character occurs.
ParseDigits(s, acc) ==
    IF s = "" THEN Finite(acc)
    ELSE LET k == IndexIn("0123456789", At(s, 1), 1)
         IN  IF k = 0 THEN NaN ELSE ParseDigits(SubSeq(s, 2, Len(s)), acc * 10 + (k - 1))

\* Number(v), for the values of the model: whitespace is trimmed from a
\* string, the empty string, null and the empty array are 0, a one-element
\* array is its element, undefined and objects are NaN.
ToNumber(v) ==
    IF v.t = "number" THEN Finite(v.n)
    ELSE IF v.t = "string" THEN ParseDigits(Trim(v.s), 0)
    ELSE IF v.t = "null" THEN Finite(0)
    ELSE IF v.t = "array" THEN ParseDigits(Trim(StringOf(v)), 0)
    ELSE NaN

\* Comparisons of Number(value) with Number(expected): false with NaN.
NumLess(a, b) == ~a.nan /\ ~b.nan /\ a.n < b.n
NumLessOrEqual(a, b) == ~a.nan /\ ~b.nan /\ a.n <= b.n

\* The SyntaxError message of new RegExp(pattern), "" for a pattern that
\* compiles. The patterns of the model are made of literal characters, ".",
\* a leading "^" and a trailing "$"; the malformed ones have an open class, an
\* open group or a leading quantifier.
RegExpError(pattern) ==
    IF IndexIn(pattern, "[", 1) > 0 /\ IndexIn(pattern, "]", IndexIn(pattern, "[", 1)) = 0
    THEN "Invalid regular expression: /" \o pattern \o "/: Unterminated character class"
    ELSE IF IndexIn(pattern, "(", 1) > 0 /\ IndexIn(pattern, ")", IndexIn(pattern, "(", 1)) = 0
    THEN "Invalid regular expression: /" \o pattern \o "/: Unterminated group"
    ELSE IF StartsWith(pattern, 1, "*")
    THEN "Invalid regular expression: /" \o pattern \o "/: Nothing to repeat"
    ELSE ""

RECURSIVE MatchHere(_, _, _)
\* Whether s from index i on begins with the pattern body ("." is any
\* character but a line terminator, a final "$" is the end of s).
MatchHere(body, s, i) ==
    IF body = "" THEN TRUE
    ELSE IF body = "$" THEN i = Len(s) + 1
    ELSE IF i > Len(s) THEN FALSE
    ELSE /\ \/ At(body, 1) = "." /\ ~IsLineTerminator(At(s, i))
            \/ At(body, 1) # "." /\ At(body, 1) = At(s, i)
         /\ MatchHere(SubSeq(body, 2, Len(body)), s, i + 1)

\* new RegExp(pattern, flags).test(s) for a pattern that compiles.
RegExpTest(pattern, ignoreCase, s) ==
    LET p == IF ignoreCase THEN ToLowerCase(pattern) ELSE pattern
        t == IF ignoreCase THEN ToLowerCase(s) ELSE s
    IN  IF StartsWith(p, 1, "^") THEN MatchHere(SubSeq(p, 2, Len(p)), t, 1)
        ELSE \E i \in 1..(Len(t) + 1) : MatchHere(p, t, i)

\* What evaluate does: a boolean, or an error.
Verdict(b) == [kind |-> "return", value |-> b, message |-> ""]
Raise(m) == [kind |-> "throw", value |-> FALSE, message |-> m]

\* IS_EMPTY of evaluate
IsEmpty(value) ==
    IF value.t \in {"null", "undefined"} THEN TRUE
    ELSE IF value.t = "string" THEN Len(value.s) = 0
    ELSE IF value.t \in {"array", "object"} THEN Len(value.items) = 0
    ELSE FALSE

\* Mutant of IsNotEmpty: only null, undefined and the empty string are
\* reported as not passing; arrays and objects are never looked into.
IsNotEmptyScalarOnly(value) ==
    IF value.t \in {"null", "undefined"} THEN FALSE
    ELSE IF value.t = "string" THEN Len(value.s) > 0
    ELSE TRUE

\* IS_NOT_EMPTY of evaluate
IsNotEmpty(value) ==
    IF value.t \in {"null", "undefined"} THEN FALSE
    ELSE IF value.t = "string" THEN Len(value.s) > 0
    ELSE IF value.t \in {"array", "object"} THEN Len(value.items) > 0
    ELSE TRUE

\* The CONTAINS and NOT_CONTAINS cases of evaluate.
EvaluateContains(operator, value, expected, caseSensitive) ==
    LET normalizedValue == Normalize(value, caseSensitive)
        normalizedExpected == Normalize(expected, caseSensitive)
    IN  IF TypeOf(normalizedValue) # "string"
        THEN Raise(operator \o " operator requires string value, got " \o TypeOf(value))
        ELSE IF TypeOf(normalizedExpected) # "string"
        THEN Raise(operator \o " operator requires string expected, got " \o TypeOf(expected))
        ELSE Verdict((operator = "CONTAINS")
                        = Includes(normalizedValue.s, normalizedExpected.s))

\* The MATCHES_PATTERN case of evaluate: every error of the inner try is
\* rethrown as `Invalid regex pattern`.
EvaluateMatches(value, expected, caseSensitive) ==
    IF TypeOf(expected) # "string"
    THEN Raise("Invalid regex pattern '" \o StringOf(expected)
                  \o "': MATCHES_PATTERN operator requires regex pattern string, got "
                  \o TypeOf(expected))
    ELSE IF RegExpError(expected.s) # ""
    THEN Raise("Invalid regex pattern '" \o expected.s \o "': " \o RegExpError(expected.s))
    ELSE Verdict(RegExpTest(expected.s, ~caseSensitive, StringOf(value)))

\* ConditionalGateTool.evaluate
Evaluate(value, operator, expected, caseSensitive) ==
    LET normalizedValue == Normalize(value, caseSensitive)
        normalizedExpected == Normalize(expected, caseSensitive)
    IN  CASE operator = "EQUALS" -> Verdict(StrictEquals(normalizedValue, normalizedExpected))
          [] operator = "NOT_EQUALS" ->
                Verdict(~StrictEquals(normalizedValue, normalizedExpected))
          [] operator \in {"CONTAINS", "NOT_CONTAINS"} ->
                EvaluateContains(operator, value, expected, caseSensitive)
          [] operator = "GREATER_THAN" -> Verdict(NumLess(ToNumber(expected), ToNumber(value)))
          [] operator = "LESS_THAN" -> Verdict(NumLess(ToNumber(value), ToNumber(expected)))
          [] operator = "GREATER_THAN_OR_EQUAL" ->
                Verdict(NumLessOrEqual(ToNumber(expected), ToNumber(value)))
          [] operator = "LESS_THAN_OR_EQUAL" ->
                Verdict(NumLessOrEqual(ToNumber(value), ToNumber(expected)))
          [] operator = "MATCHES_PATTERN" -> EvaluateMatches(value, expected, caseSensitive)
          [] operator = "IS_EMPTY" -> Verdict(IsEmpty(value))
          [] operator = "IS_NOT_EMPTY" -> Verdict(IsNotEmpty(value))
          [] OTHER -> Raise("Unsupported operator: " \o operator)

RECURSIVE JsonStringify(_)
\* JSON.stringify as it appears in a template literal.
JsonStringify(v) ==
    IF v.t = "string" THEN "\"" \o v.s \o "\""
    ELSE IF v.t = "number" THEN Digits(v.n)
    ELSE IF v.t = "null" THEN "null"
    ELSE IF v.t = "undefined" THEN "undefined"
    ELSE IF v.t = "array"
    THEN "[" \o Join([i \in 1..Len(v.items) |->
                        IF v.items[i].t = "undefined" THEN "null"
                        ELSE JsonStringify(v.items[i])], ",") \o "]"
    ELSE "{" \o Join([i \in 1..Len(v.items) |->
                        "\"" \o v.keys[i] \o "\":" \o JsonStringify(v.items[i])], ",") \o "}"

\* A rule: value, operator ("" when missing), expected, caseSensitive,
\* throwOnFailure ("true", "false", or "omitted") and errorMessage ("" when
\* there is none).
MkRule(value, operator, expected, caseSensitive, throwOnFailure, errorMessage) ==
    [value |-> value, operator |-> operator, expected |-> expected,
     caseSensitive |-> caseSensitive, throwOnFailure |-> throwOnFailure,
     errorMessage |-> errorMessage]
\* The params of a conditional-gate step; hasRule is FALSE when the step has
\* no rule.
GateParams(hasRule, rule) == [hasRule |-> hasRule, rule |-> rule]

\* const { throwOnFailure = true } = rule
ThrowOnFailure(rule) == rule.throwOnFailure # "false"

\* errorMessage || `Condition failed: ...`
FailureMessage(rule) ==
    IF rule.errorMessage # "" THEN rule.errorMessage
    ELSE "Condition failed: " \o JsonStringify(rule.value) \o " " \o rule.operator
            \o " " \o JsonStringify(rule.expected)

\* Mutant of GateExecute: throwOnFailure is not read, a failure always throws.
GateExecuteAlwaysThrows(params) ==
    LET rule == params.rule
        e == Evaluate(rule.value, rule.operator, rule.expected, rule.caseSensitive)
    IN  IF e.kind = "throw" THEN Throw(e.message)
        ELSE IF ~e.value THEN Throw(FailureMessage(rule))
        ELSE Return("true", TRUE)

\* ConditionalGateTool.execute
GateExecute(params) ==
    LET rule == params.rule
        e == Evaluate(rule.value, rule.operator, rule.expected, rule.caseSensitive)
    IN  IF e.kind = "throw"
        THEN IF ThrowOnFailure(rule) THEN Throw(e.message) ELSE Return("false", FALSE)
        ELSE IF ~e.value
        THEN IF ThrowOnFailure(rule) THEN Throw(FailureMessage(rule))
             ELSE Return("false", FALSE)
        ELSE Return("true", TRUE)

\* ConditionalGateTool.validate
GateValidate(params) ==
    IF ~params.hasRule THEN Throw("Missing required parameter: rule")
    ELSE IF params.rule.operator = ""
    THEN Throw("Missing required rule property: operator")
    ELSE IF params.rule.operator \notin OperatorSet
    THEN Throw("Invalid operator '" \o params.rule.operator \o "'. Valid operators: "
                  \o Join(OPERATORS, ", "))
    ELSE IF params.rule.value = Undefined
    THEN Throw("Missing required rule property: value")
    ELSE IF params.rule.operator \notin {"IS_EMPTY", "IS_NOT_EMPTY"}
            /\ params.rule.expected = Undefined
    THEN Throw("Operator '" \o params.rule.operator \o "' requires 'expected' property")
    ELSE Return("true", TRUE)

\* -------------------------------------------------------------- FetchTool
\* What axios settles with: a response of some status (validateStatus accepts
\* every status), or a transport error with its code and message.
Response(status) == [kind |-> "response", status |-> status, code |-> "", message |-> ""]
TransportError(code, m) == [kind |-> "error", status |-> 0, code |-> code, message |-> m]

\* The params of a fetch step: url and method ("" when missing), output (""
\* when missing), timeout (0 when missing), and what axios will settle with.
FetchParams(url, method, output, timeout, reply) ==
    [url |-> url, method |-> method, output |-> output, timeout |-> timeout,
     reply |-> reply]

\* timeout = 30000
DEFAULT_FETCH_TIMEOUT == 30000
FetchTimeout(params) == IF params.timeout = 0 THEN DEFAULT_FETCH_TIMEOUT ELSE params.timeout

\* result = { status, statusText, headers, data }: the result is named after
\* its status.
FetchResult(status) == "resp" \o Digits(status)
\* result.status
ResultStatus(result) == ParseDigits(SubSeq(result, 5, Len(result)), 0).n

\* new URL(url) succeeds: the urls of the model parse when they start with a
\* scheme.
UrlParses(url) == IndexIn(url, ":", 1) > 1 /\ IndexIn(url, " ", 1) = 0

RECURSIVE ToUpperCase(_)
\* String.prototype.toUpperCase
ToUpperCase(s) ==
    IF s = "" THEN ""
    ELSE LET k == IndexIn("abcdefghijklmnopqrstuvwxyz", At(s, 1), 1)
         IN  (IF k = 0 THEN At(s, 1) ELSE At("ABCDEFGHIJKLMNOPQRSTUVWXYZ", k))
                \o ToUpperCase(SubSeq(s, 2, Len(s)))

\* FetchTool.validate
FetchValidate(params) ==
    IF params.url = "" THEN Throw("Missing required parameter: url")
    ELSE IF ~UrlParses(params.url) THEN Throw("Invalid URL: " \o params.url)
    ELSE IF params.method # ""
            /\ ToUpperCase(params.method)
                  \notin {"GET", "POST", "PUT", "DELETE", "PATCH", "HEAD", "OPTIONS"}
    THEN Throw("Invalid HTTP method: " \o params.method)
    ELSE Return("true", TRUE)

\* Mutant of FetchToolExecute: a status of 400 or more is thrown as an error.
FetchToolExecuteStrict(params) ==
    IF params.reply.kind = "response"
    THEN IF params.reply.status >= 400
         THEN Throw("Network error: Request failed with status code "
                       \o Digits(params.reply.status))
         ELSE [Return(FetchResult(params.reply.status), TRUE) EXCEPT !.output = params.output]
    ELSE IF params.reply.code = "ECONNABORTED"
    THEN Throw("Request timeout after " \o Digits(FetchTimeout(params)) \o "ms")
    ELSE IF params.reply.code = "ENOTFOUND" THEN Throw("Host not found: " \o params.url)
    ELSE IF params.reply.code = "ECONNREFUSED"
    THEN Throw("Connection refused: " \o params.url)
    ELSE Throw("Network error: " \o params.reply.message)

\* FetchTool.execute, given what axios settles with.
FetchToolExecute(params) ==
    IF params.reply.kind = "response"
    THEN [Return(FetchResult(params.reply.status), TRUE) EXCEPT !.output = params.output]
    ELSE IF params.reply.code = "ECONNABORTED"
    THEN Throw("Request timeout after " \o Digits(FetchTimeout(params)) \o "ms")
    ELSE IF params.reply.code = "ENOTFOUND" THEN Throw("Host not found: " \o params.url)
    ELSE IF params.reply.code = "ECONNREFUSED"
    THEN Throw("Connection refused: " \o params.url)
    ELSE Throw("Network error: " \o params.reply.message)

\* ------------------------------------------------------------ ToolRegistry
\* A tool object: its name, its identity, and its class. "MockTool" is the
\* test suite's subclass of Tool, "Tool" the base class itself, "Object" a
\* value that is no instance of Tool.
MkTool(n, i, c) == [name |-> n, id |-> i, class |-> c]
\* What Map.get returns for a missing key.
NoTool == MkTool("", 0, "undefined")

\* Array.from(this.tools.keys())
List(ts) == [i \in 1..Len(ts) |-> ts[i].name]
\* this.tools.has(name)
Has(ts, name) == \E i \in 1..Len(ts) : ts[i].name = name
\* this.tools.get(name)
MapGet(ts, name) ==
    IF Has(ts, name) THEN ts[CHOOSE i \in 1..Len(ts) : ts[i].name = name] ELSE NoTool
\* Mutant of MapSet: a new key goes first.
MapSetFront(ts, tool) ==
    IF Has(ts, tool.name)
    THEN [i \in 1..Len(ts) |-> IF ts[i].name = tool.name THEN tool ELSE ts[i]]
    ELSE <<tool>> \o ts

\* this.tools.set(name, tool): a new key goes last, a present key keeps its
\* place and takes the new value.
MapSet(ts, tool) ==
    IF Has(ts, tool.name)
    THEN [i \in 1..Len(ts) |-> IF ts[i].name = tool.name THEN tool ELSE ts[i]]
    ELSE Append(ts, tool)
\* get size()
Size(ts) == Len(ts)

\* What a call on the registry did: the outcome, the error message, the Map
\* afterwards, the tool returned (get), the ToolResult returned (execute),
\* and the tool methods invoked, in order.
NoResult ==
    [kind |-> "none", result |-> "null", shouldContinue |-> TRUE, message |-> "",
     output |-> ""]
Returned(ts, got, res, inv) ==
    [outcome |-> "return", message |-> "", tools |-> ts, got |-> got,
     toolResult |-> res, invoked |-> inv]
Threw(m, ts, inv) ==
    [outcome |-> "throw", message |-> m, tools |-> ts, got |-> NoTool,
     toolResult |-> NoResult, invoked |-> inv]

\* Mutant of Register: the name is not checked for a previous registration.
RegisterOverwrite(ts, tool) ==
    IF tool.class \notin {"Tool", "MockTool"}
    THEN Threw("Tool must extend the Tool base class", ts, <<>>)
    ELSE Returned(MapSet(ts, tool), NoTool, NoResult, <<>>)

\* ToolRegistry.register
Register(ts, tool) ==
    IF tool.class \notin {"Tool", "MockTool"}
    THEN Threw("Tool must extend the Tool base class", ts, <<>>)
    ELSE IF Has(ts, tool.name)
    THEN Threw("Tool with name '" \o tool.name \o "' is already registered", ts, <<>>)
    ELSE Returned(MapSet(ts, tool), NoTool, NoResult, <<>>)

\* A call made on a tool: the method and the tool object.
Invoked(fn, tool) == [fn |-> fn, tool |-> tool]

RECURSIVE RegisterAll(_, _, _)
\* ToolRegistry.registerAll: register is called on the tools in array order;
\* the first error leaves the loop, the tools registered before it stay.
\* done lists the register calls that returned.
RegisterAll(ts, arr, done) ==
    IF arr = <<>> THEN Returned(ts, NoTool, NoResult, done)
    ELSE LET r == Register(ts, Head(arr))
         IN  IF r.outcome = "throw" THEN Threw(r.message, ts, done)
             ELSE RegisterAll(r.tools, Tail(arr), Append(done, Invoked("register", Head(arr))))

\* Mutant of GetErrorMessage: the registered names are left out.
GetErrorMessageBare(ts, name) == "Tool '" \o name \o "' not found"

\* The message of the error ToolRegistry.get throws.
GetErrorMessage(ts, name) ==
    LET availableTools == Join(List(ts), ", ")
    IN  "Tool '" \o name \o "' not found. Available tools: "
            \o (IF availableTools = "" THEN "none" ELSE availableTools)

\* ToolRegistry.get
Get(ts, name) ==
    LET tool == MapGet(ts, name)
    IN  IF tool = NoTool THEN Threw(GetErrorMessage(ts, name), ts, <<>>)
        ELSE Returned(ts, tool, NoResult, <<>>)

\* validate of the tool classes: ConditionalGateTool.validate, Tool.validate,
\* which accepts everything, and the test suite's MockTool.validate, which throws when params.requiresValidation is set and
\* params.value is not.
ClassValidate(tool, params) ==
    IF tool.class = "ConditionalGateTool" THEN GateValidate(params)
    ELSE IF tool.class = "FetchTool" THEN FetchValidate(params)
    ELSE IF tool.class = "MockTool" /\ params.requiresValidation /\ ~params.value
    THEN Throw("Value is required")
    ELSE Return("true", TRUE)

\* execute of the tool classes: Tool.execute throws, MockTool.execute returns
\* a ToolResult.
ClassExecute(tool, params) ==
    IF tool.class = "ConditionalGateTool" THEN GateExecute(params)
    ELSE IF tool.class = "FetchTool" THEN FetchToolExecute(params)
    ELSE IF tool.class = "MockTool" THEN Return("mock result", TRUE)
    ELSE Throw("Tool " \o tool.name \o " must implement execute() method")

\* Mutant of Execute: the tool is executed without validating the params.
ExecuteUnvalidated(ts, name, params) ==
    LET found == Get(ts, name)
        tool == found.got
    IN  IF found.outcome = "throw" THEN found
        ELSE LET r == ClassExecute(tool, params)
                 inv == <<Invoked("execute", tool)>>
             IN  IF r.kind = "throw" THEN Threw(r.message, ts, inv)
                 ELSE Returned(ts, NoTool, r, inv)

\* ToolRegistry.execute
Execute(ts, name, params) ==
    LET found == Get(ts, name)
        tool == found.got
    IN  IF found.outcome = "throw" THEN found
        ELSE LET v == ClassValidate(tool, params) IN
             IF v.kind = "throw"
             THEN Threw(v.message, ts, <<Invoked("validate", tool)>>)
             ELSE LET r == ClassExecute(tool, params)
                      inv == <<Invoked("validate", tool), Invoked("execute", tool)>>
                  IN  IF r.kind = "throw" THEN Threw(r.message, ts, inv)
                      ELSE Returned(ts, NoTool, r, inv)

\* Tool objects of one name the unit-level runs construct.
MaxInstances == 2
ToolNames == {"tool1", "tool2"}
ToolObjects ==
    {MkTool(n, i, c) : n \in ToolNames, i \in 1..MaxInstances, c \in {"MockTool", "Tool"}}
        \cup {MkTool("tool1", 1, "Object")}
\* Names looked up: the registrable ones and one that never is.
LookupNames == ToolNames \cup {"non-existent"}
ParamsPool == [requiresValidation : BOOLEAN, value : BOOLEAN]

\* The registry as JobManager.registerTools leaves it.
JobManagerTools ==
    <<MkTool("conditional-gate", 1, "ConditionalGateTool"), MkTool("fetch", 1, "FetchTool"),
      MkTool("offscreen", 1, "OffscreenTool"),
      MkTool("fetch-and-extract", 1, "FetchAndExtractTool")>>

\* regCall: op, the arguments (name, the tool passed to register, params),
\* the Map before the call, and what the call did.
NoParams == [requiresValidation |-> FALSE, value |-> FALSE]
Call(op, name, tool, params, before, did) ==
    [op |-> op, name |-> name, arg |-> tool, params |-> params, before |-> before,
     did |-> did]
NoCall == Call("none", "", NoTool, NoParams, <<>>, Returned(<<>>, NoTool, NoResult, <<>>))

\* ------------------------------------------------ OffscreenTool, Scraper
\* The sec-fetch-* request headers the request handler of Scraper.createPage
\* deletes.
SecFetchHeaders == {"sec-fetch-dest", "sec-fetch-mode", "sec-fetch-site", "sec-fetch-user"}
\* Scraper.headersToStrip: set by the constructor and read nowhere.
headersToStrip ==
    {"x-frame-options", "frame-options", "content-security-policy",
     "content-security-policy-report-only"}
\* The page.on('request') callback of Scraper.createPage: a copy of the
\* request's headers without the four sec-fetch-* entries.
RequestHandler(headers) == headers \ SecFetchHeaders
\* The headers a request leaves the page with: the handler's when request
\* interception was installed on the page, the request's own otherwise.
ContinueHeaders(interception, headers) ==
    IF interception THEN RequestHandler(headers) ELSE headers

MkRequest(made, intercepted, original, headers) ==
    [made |-> made, intercepted |-> intercepted, original |-> original, headers |-> headers]
NoRequest == MkRequest(FALSE, FALSE, {}, {})

\* Who acquired the page of the call in flight: OffscreenTool.execute ("tool")
\* or Scraper.extractData ("scraper").
Callers == {"tool", "scraper"}

\* OffscreenTool.browser (what the constructor or setBrowser stored: null, the
\* Scraper object, or a puppeteer Browser), Scraper.browser (launched or
\* not), and the call in flight with its page:
\*   pc           idle, init (await this.init()), newPage (await
\*                browser.newPage()), intercept (await
\*                page.setRequestInterception(true)), goto, evaluate, closing
\*                (await page.close() of the finally block), done
\*   acquired     newPage() fulfilled in this call
\*   closes       page.close() calls made on this call's page
\*   open         pages still open, by who acquired them
\*   pending      what the try block settled with, held while finally runs
NoOffscreen ==
    [browser |-> "scraper", launched |-> FALSE, via |-> "tool", pc |-> "idle", calls |-> 0,
     output |-> "", acquired |-> FALSE, closes |-> 0, open |-> [c \in Callers |-> 0],
     interception |-> FALSE, navigated |-> FALSE, request |-> NoRequest,
     pending |-> NoResult, outcome |-> NoResult]

\* The fields of one call, reset when the next call starts.
BeginCall(o, via, output) ==
    [o EXCEPT !.via = via, !.calls = @ + 1, !.output = output, !.acquired = FALSE,
              !.closes = 0, !.interception = FALSE, !.navigated = FALSE,
              !.request = NoRequest, !.pending = NoResult, !.outcome = NoResult]

\* The call settles with outcome r.
Settle(o, r) == [o EXCEPT !.pc = "done", !.outcome = r, !.pending = NoResult]

\* OffscreenTool.execute up to its first await.
OffscreenToolExecute(o, output) ==
    LET c == BeginCall(o, "tool", output)
    IN  IF c.browser = "null"
        THEN Settle(c, Throw("Browser not initialized. Call setBrowser() first."))
        ELSE IF ~SupportsNewPage(c.browser)
        THEN Settle(c, Throw("this.browser.newPage is not a function"))
        ELSE [c EXCEPT !.pc = "newPage"]

\* Scraper.extractData up to its first await: createPage, init.
ExtractData(o) == [BeginCall(o, "scraper", "") EXCEPT !.pc = "init"]

\* page.goto(url, ...) is called on the page of the call.
Goto(o) == [o EXCEPT !.pc = "goto", !.navigated = TRUE]

\* await this.browser.newPage() settled. OffscreenTool.execute enters its try
\* block and navigates; Scraper.createPage goes on to install interception.
NewPageSettled(o, ok) ==
    IF ~ok THEN Settle(o, Throw("Protocol error (Target.createTarget)"))
    ELSE LET got == [o EXCEPT !.acquired = TRUE, !.open[o.via] = @ + 1]
         IN  IF o.via = "tool" THEN Goto(got) ELSE [got EXCEPT !.pc = "intercept"]

\* await page.setRequestInterception(true) settled (Scraper.createPage); on
\* success the request handler is attached, createPage returns the page and
\* extractData enters its try block. A rejection leaves createPage, and so
\* extractData, before any try block.
InterceptionSettled(o, ok) ==
    IF ~ok THEN Settle(o, Throw("Protocol error (Fetch.enable)"))
    ELSE Goto([o EXCEPT !.interception = TRUE])

\* The mutant of Finally: a failed try block leaves without closing the page.
FinallyOnSuccessOnly(o, r) ==
    IF r.kind = "throw" THEN Settle(o, r)
    ELSE [o EXCEPT !.pc = "closing", !.pending = r, !.closes = @ + 1]

\* The try block settled with r (a return value, or the error the catch
\* clause rethrew): the finally block calls page.close() and awaits it.
Finally(o, r) == [o EXCEPT !.pc = "closing", !.pending = r, !.closes = @ + 1]

\* await page.goto settled.
GotoSettled(o, ok) ==
    IF ok THEN [o EXCEPT !.pc = "evaluate"]
    ELSE Finally(o, Throw("Navigation timeout of 60000 ms exceeded"))

\* await page.evaluate settled; OffscreenTool.execute returns a ToolResult
\* around the extracted data, Scraper.extractData the data.
EvaluateSettled(o, ok) ==
    IF ok THEN Finally(o, [Return("page", TRUE) EXCEPT !.output = o.output])
    ELSE Finally(o, Throw("Evaluation failed"))

\* await page.close() settled. A fulfilled close lets the pending outcome
\* through; a rejected one (the target is already gone) replaces it. Either
\* way the page is no longer open.
CloseSettled(o, ok) ==
    LET closed == [o EXCEPT !.open[o.via] = @ - 1]
    IN  IF ok THEN Settle(closed, o.pending)
        ELSE Settle(closed, Throw("Protocol error (Target.closeTarget): Target closed"))

\* --------------------------------------------------------- collaborators
\* ApiClient.makeRequest throws `HTTP <status>: ...` on a non-2xx status.
ApiErrors == {"HTTP 429: {}", "HTTP 500: {}"}

\* What the awaited getJob can settle with.
GetJobResponses ==
    {[kind |-> "none", job |-> NoJob, message |-> ""]}
    \cup {[kind |-> "job", job |-> j, message |-> ""] : j \in ServerJobs}
    \cup {[kind |-> "throw", job |-> NoJob, message |-> m] : m \in ApiErrors}

\* What the awaited completeJob / reportError can settle with.
ApiResponses ==
    {[kind |-> "ok", message |-> ""]}
    \cup {[kind |-> "throw", message |-> m] : m \in ApiErrors}

\* What apiClient.getConfiguration can settle with: a failure, nothing
\* (undefined), a configuration without job_execution_delay, or one with a
\* delay in seconds.
ConfigResponses ==
    {[kind |-> "throw", delay |-> 0], [kind |-> "nothing", delay |-> 0],
     [kind |-> "empty", delay |-> 0],
     [kind |-> "delay", delay |-> 0], [kind |-> "delay", delay |-> 10]}

\* The server's configuration: in most runs any answer may come back at any
\* call; a run that follows the server's job_execution_delay over time fixes
\* it, and getConfiguration then answers with the delay the server holds.
AnyServer == [fixed |-> FALSE, delay |-> 0]
ServerConfig ==
    IF server.fixed THEN {[kind |-> "delay", delay |-> server.delay]} ELSE ConfigResponses

\* The try block of fetchConfiguration throws: getConfiguration rejected, or
\* config.job_execution_delay was read off undefined.
ConfigTryThrows(c) == c.kind \in {"throw", "nothing"}

\* Mutant of FetchConfigurationThrows: no catch clause.
FetchConfigurationUncaught(c) == ConfigTryThrows(c)

\* Whether fetchConfiguration rejects: its catch clause logs and returns
\* this.config.
FetchConfigurationThrows(c) == FALSE

\* this.lastFetch = Date.now(), the last statement of the try block.
LastFetchAfter(current, c, now) == IF ConfigTryThrows(c) THEN current ELSE now

\* No getConfiguration call was made yet.
NoConfig == [kind |-> "none", delay |-> 0]

\* Mutant of FetchConfiguration: the 5 s buffer is not added.
FetchConfigurationNoBuffer(current, c) ==
    IF c.kind = "delay" THEN c.delay * MS_PER_SECOND ELSE current

\* ConfigManager.fetchConfiguration: the jobInterval after the call.
FetchConfiguration(current, c) ==
    IF c.kind = "delay" THEN c.delay * MS_PER_SECOND + INTERVAL_BUFFER ELSE current

\* ConfigManager.get('jobInterval', CONFIG.JOB_INTERVAL)
ConfigGetJobInterval == jobInterval

\* ------------------------------------------------------------ loop state
NoReport == [kind |-> "NOCALL", message |-> ""]
Ev(e, i, c, m) == [ev |-> e, step |-> i, cont |-> c, msg |-> m]

\* pc: idle (start() not called), fetchConfig (start() awaits
\* fetchConfiguration), polling (awaits getJob), inTool (awaits a step's
\* toolRegistry.execute), inFallback (awaits the legacy offscreen dispatch),
\* completing (awaits completeJob), reporting (awaits reportError), sleeping
\* (awaits the timer), done (jobLoop returned).
\* job, idx, result, executed: processJob's job, loop index, result, executed.
\* History of the current run of processJob: trace (each dispatch, and each
\* settlement as "return" or "throw" with the error message),
\* completeArg / reportArg (arguments of the API calls issued), stopResult
\* (the result of the step that returned shouldContinue=false), thrown (the
\* error processJob caught). History of the iteration: caught / errFrom (the
\* error jobLoop's catch block received and the call it came from).
\* variables, processed: processJob's variables and the processedStep of the
\* step in flight. outputs: the output keys the steps of the run returned.
BlankLoop(pc) ==
    [pc |-> pc, job |-> NoJob, idx |-> 0, result |-> "null", executed |-> FALSE,
     sleepMs |-> 0, trace |-> <<>>, completeArg |-> "NOCALL", reportArg |-> NoReport,
     stopResult |-> "none", thrown |-> "none", caught |-> "none", errFrom |-> "none",
     variables |-> Obj(<<>>, <<>>), processed |-> NoStep, outputs |-> <<>>]

Pending == {"polling", "inTool", "inFallback", "completing", "reporting", "sleeping"}
Processing == {"inTool", "inFallback", "completing", "reporting"}

\* ------------------------------------------------------------- processJob
\* await this.apiClient.completeJob(job.id, result, metrics)
CallCompleteJob(s) == [s EXCEPT !.pc = "completing", !.completeArg = s.result]

\* catch (error): await this.apiClient.reportError(job.id, "PROCESSING_FAILED",
\* { message: error.message })
CallReportError(s, msg) ==
    [s EXCEPT !.pc = "reporting", !.thrown = msg,
              !.reportArg = [kind |-> "PROCESSING_FAILED", message |-> msg]]

\* Mutant of ProcessedStep: the step is dispatched as written.
ProcessedStepVerbatim(step, variables) == step

\* const processedStep = this.replaceVariables(step, variables): the string
\* fields of the step are substituted, the other fields copied.
ProcessedStep(step, variables) ==
    [step EXCEPT !.use = ReplaceString(@, variables),
                 !.url = ReplaceString(@, variables),
                 !.output = ReplaceString(@, variables)]

\* processedStep = ...; await this.toolRegistry.execute(processedStep.use,
\* processedStep, context)
DispatchStep(s, i) ==
    [s EXCEPT !.pc = "inTool", !.idx = i, !.trace = Append(@, Ev("dispatch", i, TRUE, "")),
              !.processed = ProcessedStep(s.job.steps[i], s.variables)]

\* The parameters of the fallback's dispatch: { url, rules } with the url
\* given; OffscreenTool.validate accepts a url that new URL() parses.
FallbackArgs(url) == [OffscreenArgs EXCEPT !.url = url.s, !.valid = UrlParses(url.s)]

\* Mutant of LegacyFallback: the url is dispatched as the job has it.
LegacyFallbackRawUrl(s) ==
    IF s.job.type \in {"offscreen", "fetch-and-extract"}
    THEN IF ToBoolean(LegacyUrl(s.job))
         THEN [s EXCEPT !.pc = "inFallback", !.processed = FallbackArgs(LegacyUrl(s.job)),
                        !.trace = Append(@, Ev("dispatch", 0, TRUE, ""))]
         ELSE CallCompleteJob(s)
    ELSE CallCompleteJob([s EXCEPT !.result = "skipped"])

\* Fallback for legacy jobs (step 0 of the trace is the fallback dispatch):
\* url = this.replaceVariables(url, variables); if (url) dispatch 'offscreen'.
LegacyFallback(s) ==
    LET url == ReplaceVariables(LegacyUrl(s.job), s.variables) IN
    IF s.job.type \in {"offscreen", "fetch-and-extract"}
    THEN IF ToBoolean(url)
         THEN [s EXCEPT !.pc = "inFallback", !.processed = FallbackArgs(url),
                        !.trace = Append(@, Ev("dispatch", 0, TRUE, ""))]
         ELSE CallCompleteJob(s)
    ELSE CallCompleteJob([s EXCEPT !.result = "skipped"])

\* if (!executed) { fallback }; then completeJob
AfterSteps(s) == IF ~s.executed THEN LegacyFallback(s) ELSE CallCompleteJob(s)

\* The output key of a ToolResult is remembered in outputs.
NoteOutput(s, o) == IF o.output = "" THEN s ELSE [s EXCEPT !.outputs = Append(@, o.output)]

\* Mutant of StoreResult: the ToolResult's output mapping is merged into the
\* variables of the run.
StoreResultMergeOutput(s, o) ==
    LET g == NoteOutput(s, o)
        m == IF o.output = "" \/ HasOwnProperty(g.variables, o.output) THEN g
             ELSE [g EXCEPT !.variables = Obj(Append(@.keys, o.output),
                                              Append(@.items, Str(o.result)))]
    IN  IF Truthy(o.result) THEN [m EXCEPT !.result = o.result, !.executed = TRUE] ELSE m

\* if (toolResult && toolResult.result) { result = ...; executed = true };
\* toolResult.output is not read.
StoreResult(s, o) ==
    LET g == NoteOutput(s, o)
    IN  IF Truthy(o.result) THEN [g EXCEPT !.result = o.result, !.executed = TRUE] ELSE g

\* Mutant of StepReturned: the `break` on shouldContinue === false is missing.
StepReturnedNoBreak(s, o) ==
    LET t == [s EXCEPT !.trace = Append(@, Ev(o.kind, s.idx, o.shouldContinue, o.message))] IN
    IF o.kind = "throw" THEN CallReportError(t, o.message)
    ELSE LET u == StoreResult(t, o) IN
         IF s.idx < Len(s.job.steps)
         THEN DispatchStep([u EXCEPT !.stopResult =
                               IF o.shouldContinue THEN @ ELSE o.result], s.idx + 1)
         ELSE AfterSteps(u)

\* Mutant of StepReturned: the inner catch logs and does not rethrow, so the
\* pipeline falls through to the fallback and to completeJob.
StepReturnedSwallow(s, o) ==
    LET t == [s EXCEPT !.trace = Append(@, Ev(o.kind, s.idx, o.shouldContinue, o.message))] IN
    IF o.kind = "throw" THEN AfterSteps(t)
    ELSE LET u == StoreResult(t, o) IN
         IF o.shouldContinue = FALSE
         THEN AfterSteps([u EXCEPT !.stopResult = o.result])
         ELSE IF s.idx < Len(s.job.steps) THEN DispatchStep(u, s.idx + 1)
         ELSE AfterSteps(u)

\* The loop over parsedRules.steps after step s.idx settled with outcome o.
StepReturned(s, o) ==
    LET t == [s EXCEPT !.trace = Append(@, Ev(o.kind, s.idx, o.shouldContinue, o.message))] IN
    IF o.kind = "throw" THEN CallReportError(t, o.message)
    ELSE LET u == StoreResult(t, o) IN
         IF o.shouldContinue = FALSE
         THEN AfterSteps([u EXCEPT !.stopResult = o.result])
         ELSE IF s.idx < Len(s.job.steps) THEN DispatchStep(u, s.idx + 1)
         ELSE AfterSteps(u)

\* Mutant of FallbackReturned: an error of the fallback dispatch leaves
\* processJob without a report.
FallbackReturnedUnreported(s, o) ==
    LET t == [s EXCEPT !.trace = Append(@, Ev(o.kind, 0, o.shouldContinue, o.message))] IN
    IF o.kind = "throw" THEN [BlankLoop("sleeping") EXCEPT !.sleepMs = jobInterval]
    ELSE CallCompleteJob([t EXCEPT !.result = o.result])

\* The legacy offscreen dispatch settled with outcome o.
FallbackReturned(s, o) ==
    LET t == [s EXCEPT !.trace = Append(@, Ev(o.kind, 0, o.shouldContinue, o.message))] IN
    IF o.kind = "throw" THEN CallReportError(t, o.message)
    ELSE CallCompleteJob([t EXCEPT !.result = o.result])

\* processJob(job) up to its first await.
ProcessJob(job) ==
    LET s == [BlankLoop("polling") EXCEPT !.job = job, !.variables = JobVariables(job)] IN
    IF job.hasRules
    THEN IF ~job.yamlOk THEN CallReportError(s, "YAMLException: bad indentation")
         ELSE IF Len(job.steps) > 0 THEN DispatchStep(s, 1)
         ELSE AfterSteps(s)
    ELSE AfterSteps(s)

\* ---------------------------------------------------------------- jobLoop
\* Mutant of JobLoopSleep: the iteration ends without its sleep.
JobLoopSleepSkipped == IF isRunning THEN BlankLoop("polling") ELSE BlankLoop("done")

\* const interval = configManager.get(...); await setTimeout(interval)
JobLoopSleep == [BlankLoop("sleeping") EXCEPT !.sleepMs = ConfigGetJobInterval]

\* Mutant of JobLoopCatch: no differentiated backoff.
JobLoopCatchNoBackoff(msg, from) ==
    [BlankLoop("sleeping") EXCEPT
        !.sleepMs = ConfigGetJobInterval, !.caught = msg, !.errFrom = from]

\* Mutant of JobLoopCatch: the error ends the loop.
JobLoopCatchExit(msg, from) ==
    [BlankLoop("done") EXCEPT !.caught = msg, !.errFrom = from]

\* catch (error) of jobLoop: doubled sleep when the message includes '429'.
JobLoopCatch(msg, from) ==
    [BlankLoop("sleeping") EXCEPT
        !.sleepMs = IF Includes(msg, "429") THEN ConfigGetJobInterval * 2
                    ELSE ConfigGetJobInterval,
        !.caught = msg, !.errFrom = from]

\* Mutant of JobLoopTop: the loop condition does not read isRunning.
JobLoopTopNoCheck == BlankLoop("polling")

\* while (this.isRunning) { ... await this.apiClient.getJob()
JobLoopTop == IF isRunning THEN BlankLoop("polling") ELSE BlankLoop("done")

\* ---------------------------------------------------------------- actions
NextLoopId == CHOOSE l \in Loops : loop[l].pc = "idle" /\ \A k \in Loops : k < l => loop[k].pc # "idle"

\* start(): returns at once when already running, else sets the flag and
\* awaits fetchConfiguration.
Start ==
    /\ startsLeft > 0
    /\ startsLeft' = startsLeft - 1
    /\ IF isRunning
       THEN /\ lastStart' = "ignored"
            /\ UNCHANGED <<isRunning, loop>>
       ELSE /\ lastStart' = "launched"
            /\ isRunning' = TRUE
            /\ loop' = [loop EXCEPT ![NextLoopId] = BlankLoop("fetchConfig")]
    /\ UNCHANGED <<jobInterval, pingTimers, workload, lastConfig, lastFetch, server, unitVars>>

\* start() after fetchConfiguration settled: ping timer, first ping, jobLoop().
StartResume(l) ==
    /\ loop[l].pc = "fetchConfig"
    /\ \E c \in ServerConfig :
          /\ jobInterval' = FetchConfiguration(jobInterval, c)
          /\ lastFetch' = LastFetchAfter(lastFetch, c, l)
          /\ lastConfig' = c
          /\ IF FetchConfigurationThrows(c)
             THEN /\ loop' = [loop EXCEPT ![l] = BlankLoop("done")]
                  /\ UNCHANGED pingTimers
             ELSE /\ pingTimers' = pingTimers + 1
                  /\ loop' = [loop EXCEPT ![l] = JobLoopTop]
    /\ UNCHANGED <<isRunning, startsLeft, lastStart, workload, server, unitVars>>

\* getJob settled: a job is processed, no job sleeps, an error is caught.
GetJobReturn(l) ==
    /\ loop[l].pc = "polling"
    /\ \E r \in GetJobResponses :
          loop' = [loop EXCEPT ![l] =
                      IF r.kind = "job" THEN ProcessJob(r.job)
                      ELSE IF r.kind = "none" THEN JobLoopSleep
                      ELSE JobLoopCatch(r.message, "poll")]
    /\ UNCHANGED <<isRunning, jobInterval, pingTimers, startsLeft, lastStart, workload, lastConfig, lastFetch, server, unitVars>>

\* A step's toolRegistry.execute settled.
ToolReturn(l) ==
    /\ loop[l].pc = "inTool"
    /\ LET step == loop[l].processed IN
       \E o \in ToolRegistryExecute(step.use, step) :
          loop' = [loop EXCEPT ![l] = StepReturned(loop[l], o)]
    /\ UNCHANGED <<isRunning, jobInterval, pingTimers, startsLeft, lastStart, workload, lastConfig, lastFetch, server, unitVars>>

\* The legacy fallback's toolRegistry.execute('offscreen', ...) settled.
FallbackReturn(l) ==
    /\ loop[l].pc = "inFallback"
    /\ \E o \in ToolRegistryExecute("offscreen", loop[l].processed) :
          loop' = [loop EXCEPT ![l] = FallbackReturned(loop[l], o)]
    /\ UNCHANGED <<isRunning, jobInterval, pingTimers, startsLeft, lastStart, workload, lastConfig, lastFetch, server, unitVars>>

\* completeJob settled: processJob returns and the loop sleeps, or the
\* rejection lands in processJob's catch block.
CompleteJobReturn(l) ==
    /\ loop[l].pc = "completing"
    /\ \E r \in ApiResponses :
          loop' = [loop EXCEPT ![l] =
                      IF r.kind = "ok" THEN JobLoopSleep
                      ELSE CallReportError(loop[l], r.message)]
    /\ UNCHANGED <<isRunning, jobInterval, pingTimers, startsLeft, lastStart, workload, lastConfig, lastFetch, server, unitVars>>

\* reportError settled: processJob returns, or its promise rejects into
\* jobLoop's catch block.
ReportErrorReturn(l) ==
    /\ loop[l].pc = "reporting"
    /\ \E r \in ApiResponses :
          loop' = [loop EXCEPT ![l] =
                      IF r.kind = "ok" THEN JobLoopSleep
                      ELSE JobLoopCatch(r.message, "report")]
    /\ UNCHANGED <<isRunning, jobInterval, pingTimers, startsLeft, lastStart, workload, lastConfig, lastFetch, server, unitVars>>

\* The sleep timer fired: back to the top of the while loop.
Wake(l) ==
    /\ loop[l].pc = "sleeping"
    /\ loop' = [loop EXCEPT ![l] = JobLoopTop]
    /\ UNCHANGED <<isRunning, jobInterval, pingTimers, startsLeft, lastStart, workload, lastConfig, lastFetch, server, unitVars>>

\* stop(): clears the flag (scraper.close() and clearAll touch nothing the
\* loop reads).
Stop ==
    /\ isRunning' = FALSE
    /\ UNCHANGED <<jobInterval, pingTimers, loop, startsLeft, lastStart, workload, lastConfig, lastFetch, server, unitVars>>

LoopStep(l) ==
    \/ StartResume(l)
    \/ GetJobReturn(l)
    \/ ToolReturn(l)
    \/ FallbackReturn(l)
    \/ CompleteJobReturn(l)
    \/ ReportErrorReturn(l)
    \/ Wake(l)

Next ==
    \/ Start
    \/ Stop
    \/ \E l \in Loops : LoopStep(l)

\* -------------------------------------------------------- specifications
InitCommon ==
    /\ isRunning = FALSE
    /\ jobInterval = JOB_INTERVAL
    /\ pingTimers = 0
    /\ loop = [l \in Loops |-> BlankLoop("idle")]
    /\ lastStart = "none"
    /\ lastConfig = NoConfig
    /\ lastFetch = 0
    /\ server = AnyServer

\* In the runs of the worker the registry holds what registerTools put there
\* and no unit-level call is made.
UnitIdle ==
    tools = JobManagerTools /\ regCall = NoCall /\ subst = NoSubst /\ offscreen = NoOffscreen

\* One worker started once, the server handing out every job of JobPool.
Init == InitCommon /\ UnitIdle /\ startsLeft = 1 /\ workload = "pipeline"

Spec == Init /\ [][Next]_vars

\* The lifecycle runs: MaxStarts calls of start(), any number of stop().
LoopInit == InitCommon /\ UnitIdle /\ startsLeft = MaxStarts /\ workload = "lifecycle"

LoopSpec == LoopInit /\ [][Next]_vars

\* Every pending call and every timer eventually returns.
LiveSpec == LoopInit /\ [][Next]_vars /\ \A l \in Loops : WF_vars(LoopStep(l))

\* One worker started once, the server handing out the jobs of VarPool.
VarInit == InitCommon /\ UnitIdle /\ startsLeft = 1 /\ workload = "variables"
VarSpec == VarInit /\ [][Next]_vars

\* The delays the server's job_execution_delay moves between, in seconds.
ServerDelays == {10, 20}

\* The operator of the server changes job_execution_delay.
ServerSetsDelay ==
    /\ server.fixed
    /\ \E d \in ServerDelays \ {server.delay} : server' = [server EXCEPT !.delay = d]
    /\ UNCHANGED <<isRunning, jobInterval, pingTimers, loop, startsLeft, lastStart, workload,
                   lastConfig, lastFetch, unitVars>>

ConfNext ==
    \/ Next
    \/ ServerSetsDelay

\* One worker started once against a server that answers every configuration
\* call with the delay it holds at that moment; pending calls and timers
\* eventually return.
ConfInit ==
    /\ isRunning = FALSE
    /\ jobInterval = JOB_INTERVAL
    /\ pingTimers = 0
    /\ loop = [l \in Loops |-> BlankLoop("idle")]
    /\ lastStart = "none"
    /\ lastConfig = NoConfig
    /\ lastFetch = 0
    /\ server = [fixed |-> TRUE, delay |-> 10]
    /\ UnitIdle /\ startsLeft = 1 /\ workload = "lifecycle"
ConfSpec == ConfInit /\ [][ConfNext]_vars /\ \A l \in Loops : WF_vars(LoopStep(l))

\* ------------------------------------------- unit-level runs: ToolRegistry
\* registry.register(tool)
RegRegister ==
    /\ \E t \in ToolObjects :
          LET did == Register(tools, t)
          IN  /\ tools' = did.tools
              /\ regCall' = Call("register", t.name, t, NoParams, tools, did)
    /\ UNCHANGED <<workerVars, subst, offscreen>>

\* registry.get(name)
RegGet ==
    /\ \E n \in LookupNames :
          LET did == Get(tools, n)
          IN  /\ tools' = did.tools
              /\ regCall' = Call("get", n, NoTool, NoParams, tools, did)
    /\ UNCHANGED <<workerVars, subst, offscreen>>

\* await registry.execute(name, params, context)
RegExecute ==
    /\ \E n \in LookupNames, p \in ParamsPool :
          LET did == Execute(tools, n, p)
          IN  /\ tools' = did.tools
              /\ regCall' = Call("execute", n, NoTool, p, tools, did)
    /\ UNCHANGED <<workerVars, subst, offscreen>>

\* registry.clear()
RegClear ==
    /\ tools' = <<>>
    /\ regCall' = Call("clear", "", NoTool, NoParams, tools,
                       Returned(<<>>, NoTool, NoResult, <<>>))
    /\ UNCHANGED <<workerVars, subst, offscreen>>

\* Most tools handed to one registerAll call.
MaxBatch == 2
\* The tools of a batch: one MockTool of each name and a value that is no
\* Tool.
BatchTools == {MkTool(n, 1, "MockTool") : n \in ToolNames} \cup {MkTool("tool1", 1, "Object")}
Batches == UNION {[1..k -> BatchTools] : k \in 0..MaxBatch}

\* registry.registerAll(tools)
RegRegisterAll ==
    /\ \E arr \in Batches :
          LET did == RegisterAll(tools, arr, <<>>)
          IN  /\ tools' = did.tools
              /\ regCall' = Call("registerAll", "", NoTool, NoParams, tools, did)
    /\ UNCHANGED <<workerVars, subst, offscreen>>

RegNext == RegRegister \/ RegRegisterAll \/ RegGet \/ RegExecute \/ RegClear

\* A fresh ToolRegistry (new ToolRegistry()) and any sequence of calls on it;
\* the worker is not started.
RegInit ==
    /\ InitCommon /\ startsLeft = 0 /\ workload = "none"
    /\ tools = <<>> /\ regCall = NoCall /\ subst = NoSubst /\ offscreen = NoOffscreen
RegSpec == RegInit /\ [][RegNext]_vars

\* --------------------------------------- unit-level runs: replaceVariables
\* Most pieces a target string is put together from.
MaxPieces == 2
Pieces ==
    {"{{vars.a}}", "{{ vars.a }}", "{{vars.b}}", "{{vars.missing}}", "{{ vars.missing }}",
     "x ", "{{vars.", "}}"}

RECURSIVE Concat(_)
Concat(ps) == IF ps = <<>> THEN "" ELSE ps[1] \o Concat(Tail(ps))

TargetStrings == {Concat(ps) : ps \in UNION {[1..k -> Pieces] : k \in 1..MaxPieces}}

\* Step-like targets: arrays, objects with a non-string leaf, a nested object
\* whose key looks like a placeholder, and bare non-string values.
TargetTrees ==
    {Arr(<<Str(p), Str(q)>>) : p, q \in {"{{vars.a}}", "{{ vars.missing }}", "x "}}
        \cup {Obj(<<"link", "id">>, <<Str(p), Num(123)>>) : p \in Pieces}
        \cup {Obj(<<"use", "headers">>,
                  <<Str("fetch"), Obj(<<"{{vars.a}}">>, <<Arr(<<Str(p), Null>>)>>)>>) :
                p \in {"{{vars.a}}", "x "}}
        \cup {Num(7), Null, Arr(<<>>)}

TargetPool == {Str(x) : x \in TargetStrings} \cup TargetTrees

\* Variable mappings: string values (one of them holding placeholder text), a
\* self-referential value, non-string values, and no variables at all.
VariablesPool ==
    {Obj(<<"a", "b">>, <<Str("A"), Str("{{vars.a}}")>>),
     Obj(<<"a">>, <<Str("{{vars.a}}")>>),
     Obj(<<"a", "b">>, <<Num(42), Arr(<<Str("p"), Str("q")>>)>>),
     Obj(<<>>, <<>>)}

\* manager.replaceVariables(target, variables): the call builds its result
\* from new strings, arrays and objects and assigns nothing in target.
SubstCall ==
    /\ ~subst.returned
    /\ subst' = [subst EXCEPT
                    !.returned = TRUE,
                    !.result = ReplaceVariables(subst.target, subst.variables),
                    !.warnings = AllWarnings(subst.target, subst.variables)]
    /\ UNCHANGED <<workerVars, tools, regCall, offscreen>>

SubstNext == SubstCall

\* A constructed JobManager that is not started, and one call of
\* replaceVariables with any target and mapping of the pools.
SubstInit ==
    /\ InitCommon /\ startsLeft = 0 /\ workload = "none"
    /\ tools = JobManagerTools /\ regCall = NoCall /\ offscreen = NoOffscreen
    /\ \E t \in TargetPool, v \in VariablesPool :
          subst = [NoSubst EXCEPT !.target = t, !.given = t, !.variables = v]
SubstSpec == SubstInit /\ [][SubstNext]_vars

\* ------------------------------------ unit-level runs: ConditionalGateTool
GateValues ==
    {Str("abc"), Str("ABC"), Str(""), Str("5"), Num(5), Num(7), Null, Arr(<<>>),
     Arr(<<Num(5)>>), Obj(<<"k">>, <<Num(5)>>), Obj(<<>>, <<>>), Undefined}
GateExpected ==
    {Str("abc"), Str("b"), Str("^a.c$"), Str("[invalid(regex"), Str("(x"), Str("5"),
     Num(5), Null, Undefined}
GateOperators == OperatorSet \cup {"", "BOGUS"}
GateRules ==
    {MkRule(v, op, e, cs, tof, msg) :
        v \in GateValues, op \in GateOperators, e \in GateExpected, cs \in BOOLEAN,
        tof \in {"true", "false", "omitted"}, msg \in {"", "Custom failure"}}
GateParamsPool ==
    {GateParams(TRUE, r) : r \in GateRules}
        \cup {GateParams(FALSE, MkRule(Undefined, "", Undefined, TRUE, "omitted", ""))}

\* await toolRegistry.execute('conditional-gate', params, context) on the
\* registry of a constructed JobManager.
GateDispatch ==
    /\ regCall = NoCall
    /\ \E p \in GateParamsPool :
          LET did == Execute(tools, "conditional-gate", p)
          IN  /\ tools' = did.tools
              /\ regCall' = Call("execute", "conditional-gate", NoTool, p, tools, did)
    /\ UNCHANGED <<workerVars, subst, offscreen>>

GateNext == GateDispatch

\* A constructed JobManager that is not started, and one conditional-gate
\* step of the pool dispatched through its registry.
GateInit == InitCommon /\ UnitIdle /\ startsLeft = 0 /\ workload = "none"
GateSpec == GateInit /\ [][GateNext]_vars

\* ---------------------------------------------- unit-level runs: FetchTool
FetchStatuses == {200, 204, 301, 400, 401, 404, 429, 500, 503}
FetchReplies ==
    {Response(st) : st \in FetchStatuses}
        \cup {TransportError("ECONNABORTED", "timeout of 30000ms exceeded"),
              TransportError("ENOTFOUND", "getaddrinfo ENOTFOUND h"),
              TransportError("ECONNREFUSED", "connect ECONNREFUSED 127.0.0.1:80"),
              TransportError("ECONNRESET", "socket hang up")}
FetchParamsPool ==
    {FetchParams(u, m, o, t, r) :
        u \in {"https://h/a", "", "not a url"}, m \in {"", "GET", "post", "FETCH"},
        o \in {"", "userData"}, t \in {0, 5000}, r \in FetchReplies}

\* await toolRegistry.execute('fetch', params, context) on the registry of a
\* constructed JobManager.
FetchDispatch ==
    /\ regCall = NoCall
    /\ \E p \in FetchParamsPool :
          LET did == Execute(tools, "fetch", p)
          IN  /\ tools' = did.tools
              /\ regCall' = Call("execute", "fetch", NoTool, p, tools, did)
    /\ UNCHANGED <<workerVars, subst, offscreen>>

FetchNext == FetchDispatch

\* A constructed JobManager that is not started, and one fetch step of the
\* pool dispatched through its registry.
FetchInit == InitCommon /\ UnitIdle /\ startsLeft = 0 /\ workload = "none"
FetchSpec == FetchInit /\ [][FetchNext]_vars

\* ------------------------------------ unit-level run: OffscreenTool, Scraper
\* Number of execute / extractData calls made in a run.
MaxCalls == 2
\* Header sets of the requests a navigating page makes.
RequestHeaderSets ==
    {{"accept"},
     {"accept"} \cup SecFetchHeaders,
     {"accept", "x-frame-options", "content-security-policy"},
     {"accept"} \cup SecFetchHeaders \cup headersToStrip}
OffscreenBrowsers == {"null", "scraper", "puppeteer"}

OffIdle == offscreen.pc \in {"idle", "done"}

\* OffscreenTool.setBrowser(browser)
SetBrowser ==
    /\ OffIdle
    /\ \E b \in OffscreenBrowsers :
          /\ b # offscreen.browser
          /\ offscreen' = [offscreen EXCEPT !.browser = b]
    /\ UNCHANGED <<workerVars, tools, regCall, subst>>

\* OffscreenTool.execute(params, context) is called.
OffscreenCall ==
    /\ OffIdle
    /\ offscreen.calls < MaxCalls
    /\ \E output \in {"", "page"} : offscreen' = OffscreenToolExecute(offscreen, output)
    /\ UNCHANGED <<workerVars, tools, regCall, subst>>

\* Scraper.extractData(url, rules) is called.
ExtractDataCall ==
    /\ OffIdle
    /\ offscreen.calls < MaxCalls
    /\ offscreen' = ExtractData(offscreen)
    /\ UNCHANGED <<workerVars, tools, regCall, subst>>

\* await this.init() settled: nothing to do when the browser was launched
\* before, else puppeteer.launch fulfils or rejects.
InitReturn ==
    /\ offscreen.pc = "init"
    /\ \E ok \in BOOLEAN :
          /\ offscreen.launched => ok
          /\ offscreen' =
                IF ok THEN [offscreen EXCEPT !.launched = TRUE, !.pc = "newPage"]
                ELSE Settle(offscreen, Throw("Failed to launch the browser process"))
    /\ UNCHANGED <<workerVars, tools, regCall, subst>>

NewPageReturn ==
    /\ offscreen.pc = "newPage"
    /\ \E ok \in BOOLEAN : offscreen' = NewPageSettled(offscreen, ok)
    /\ UNCHANGED <<workerVars, tools, regCall, subst>>

InterceptReturn ==
    /\ offscreen.pc = "intercept"
    /\ \E ok \in BOOLEAN : offscreen' = InterceptionSettled(offscreen, ok)
    /\ UNCHANGED <<workerVars, tools, regCall, subst>>

\* The navigating page makes a request.
PageRequest ==
    /\ offscreen.pc = "goto"
    /\ \E h \in RequestHeaderSets :
          offscreen' = [offscreen EXCEPT !.request =
              MkRequest(TRUE, offscreen.interception, h,
                        ContinueHeaders(offscreen.interception, h))]
    /\ UNCHANGED <<workerVars, tools, regCall, subst>>

GotoReturn ==
    /\ offscreen.pc = "goto"
    /\ \E ok \in BOOLEAN : offscreen' = GotoSettled(offscreen, ok)
    /\ UNCHANGED <<workerVars, tools, regCall, subst>>

EvaluateReturn ==
    /\ offscreen.pc = "evaluate"
    /\ \E ok \in BOOLEAN : offscreen' = EvaluateSettled(offscreen, ok)
    /\ UNCHANGED <<workerVars, tools, regCall, subst>>

CloseReturn ==
    /\ offscreen.pc = "closing"
    /\ \E ok \in BOOLEAN : offscreen' = CloseSettled(offscreen, ok)
    /\ UNCHANGED <<workerVars, tools, regCall, subst>>

OffNext ==
    \/ SetBrowser
    \/ OffscreenCall
    \/ ExtractDataCall
    \/ InitReturn
    \/ NewPageReturn
    \/ InterceptReturn
    \/ PageRequest
    \/ GotoReturn
    \/ EvaluateReturn
    \/ CloseReturn

\* The tool as the constructor left it, with any of the three browsers.
OffInit ==
    /\ InitCommon /\ startsLeft = 0 /\ workload = "none"
    /\ tools = JobManagerTools /\ regCall = NoCall /\ subst = NoSubst
    /\ \E b \in OffscreenBrowsers : offscreen = [NoOffscreen EXCEPT !.browser = b]
OffSpec == OffInit /\ [][OffNext]_vars


\* ================================================================ claims
\* The events of a run's trace that belong to the step list (step 0 is the
\* legacy fallback).
StepEvents(s) == SelectSeq(s.trace, LAMBDA e : e.step > 0)

Settled(e) == e.ev \in {"return", "throw"}

\* C1: in processJob the dispatches of a job's steps form a prefix of the
\* step list in document order: the k-th dispatch is step k, each dispatch
\* follows the return of the previous step (so no step is dispatched twice
\* and no two invocations overlap), and no step is dispatched after a step
\* returned shouldContinue=false.
C1_StepsSequentialPrefix ==
    \A l \in Loops :
        LET s == loop[l]
            tr == StepEvents(s)
        IN /\ Len(tr) <= 2 * Len(s.job.steps)
           /\ \A k \in 1..Len(tr) :
                 /\ (k % 2 = 1) => tr[k].ev = "dispatch" /\ tr[k].step = (k + 1) \div 2
                 /\ (k % 2 = 0) => Settled(tr[k]) /\ tr[k].step = k \div 2
                 /\ (tr[k].ev = "dispatch" /\ k > 1) =>
                        tr[k - 1].ev = "return" /\ tr[k - 1].cont = TRUE
           /\ (s.pc = "inTool") <=> (Len(tr) > 0 /\ tr[Len(tr)].ev = "dispatch")
           /\ (s.pc = "inTool") => s.idx = (Len(tr) + 1) \div 2

\* A run whose first step returned shouldContinue=false with steps left, and
\* which went on to report completion.
C1_Witness ==
    \E l \in Loops :
        /\ loop[l].pc = "completing"
        /\ Len(loop[l].job.steps) >= 2
        /\ Len(loop[l].trace) = 2
        /\ loop[l].trace[2].ev = "return" /\ loop[l].trace[2].cont = FALSE

\* C2: when a step returns shouldContinue=false, the result passed to
\* completeJob is the ToolResult.result of that stopping step.
C2_StopResultReported ==
    \A l \in Loops :
        (loop[l].pc = "completing" /\ loop[l].stopResult # "none")
            => loop[l].completeArg = loop[l].stopResult

\* C3: a step whose `use` names no registered tool is skipped without
\* failing the job: its dispatch never settles as an error that aborts the
\* pipeline and sends the job to reportError.
C3_UnknownToolSkipped ==
    \A l \in Loops :
        LET s == loop[l] IN
        \A k \in 1..Len(s.trace) :
            (s.trace[k].step > 0 /\ Settled(s.trace[k])
                /\ s.job.steps[s.trace[k].step].use \notin RegisteredTools)
            => /\ s.trace[k].ev = "return"
               /\ s.reportArg = NoReport

\* A throw is the last event of its run (no later step, no fallback), with
\* completeJob not called and reportError awaited with "PROCESSING_FAILED"
\* and the thrown error's message; the same for a rule document that does
\* not parse.
C4_AbortState ==
    \A l \in Loops :
        LET s == loop[l] IN
        /\ \A k \in 1..Len(s.trace) :
              s.trace[k].ev = "throw" =>
                 /\ k = Len(s.trace)
                 /\ s.pc = "reporting"
                 /\ s.completeArg = "NOCALL"
                 /\ s.reportArg = [kind |-> "PROCESSING_FAILED", message |-> s.trace[k].msg]
        /\ (s.job.hasRules /\ ~s.job.yamlOk) =>
              /\ s.trace = <<>>
              /\ s.pc = "reporting"
              /\ s.completeArg = "NOCALL"
              /\ s.reportArg.kind = "PROCESSING_FAILED"
              /\ Includes(s.reportArg.message, "YAMLException")

\* Once reportError is awaited the worker dispatches nothing more for the
\* job: the loop's next state is its sleep.
C4_NotRerun ==
    \A l \in Loops :
        (loop[l].pc = "reporting" /\ loop'[l] # loop[l]) => loop'[l].pc = "sleeping"

\* C4: if a step's validation or execution throws, or the rule document does
\* not parse, the whole job is aborted: no later step is dispatched, the
\* legacy fallback is not run, completeJob is not called, reportError is
\* called with "PROCESSING_FAILED" and the thrown error's message, and the
\* job is not re-run by the worker.
C4_ThrowAbortsJob == [](C4_AbortState) /\ [][C4_NotRerun]_vars

\* The second step of an offscreen-typed job threw after the first returned
\* a result: the third step and the fallback are not run, reportError is
\* awaited.
C4_Witness ==
    \E l \in Loops :
        /\ loop[l].pc = "reporting"
        /\ Len(loop[l].job.steps) = 3
        /\ loop[l].job.type = "offscreen"
        /\ Len(loop[l].trace) = 4
        /\ loop[l].trace[4].ev = "throw"
        /\ loop[l].reportArg.message = "Condition failed"

\* C5: one run of processJob never issues both completeJob and reportError.
C5_OneTerminalReport ==
    \A l \in Loops :
        ~(loop[l].completeArg # "NOCALL" /\ loop[l].reportArg # NoReport)

\* C6: processJob never rejects: jobLoop's catch block is never entered
\* because of job processing (only a failing poll enters it).
C6_ProcessJobNeverRejects ==
    \A l \in Loops : loop[l].errFrom \in {"none", "poll"}

\* A step in which a poll fails with "429" ends in a sleep of twice the
\* current jobInterval; a step that ends a sleep after a failed poll, with
\* isRunning true, issues the next poll.
C7_Backoff ==
    \A l \in Loops :
        /\ (loop[l].pc = "polling" /\ loop'[l].errFrom = "poll"
                /\ Includes(loop'[l].caught, "429"))
           => loop'[l].pc = "sleeping" /\ loop'[l].sleepMs = 2 * jobInterval
        /\ (loop[l].pc = "sleeping" /\ loop[l].errFrom = "poll"
                /\ loop'[l] # loop[l] /\ isRunning)
           => loop'[l].pc = "polling"

\* C7: when getJob raises an error whose message contains "429", the sleep
\* that follows is exactly twice the interval in force at that moment, and
\* when that sleep ends with the worker still running the loop polls again.
C7_RateLimitDoublesSleep == [][C7_Backoff]_vars

\* A loop in its doubled sleep after a rate-limited poll, the interval being
\* one the server configured.
C7_Witness ==
    \E l \in Loops :
        /\ loop[l].pc = "sleeping"
        /\ loop[l].errFrom = "poll"
        /\ Includes(loop[l].caught, "429")
        /\ jobInterval = 10 * MS_PER_SECOND + INTERVAL_BUFFER
        /\ loop[l].sleepMs = 2 * jobInterval

\* A step that takes a loop from processing a job to its sleep sets the
\* sleep to the current jobInterval.
C8_NormalSleep ==
    \A l \in Loops :
        (loop[l].pc \in Processing /\ loop'[l].pc = "sleeping")
            => loop'[l].sleepMs = jobInterval

\* C8: an error that does not come from the poll call (job processing,
\* completeJob, reportError) is followed by a sleep of exactly the normal
\* interval, even when its message contains "429".
C8_OnlyPollBacksOff == [][C8_NormalSleep]_vars

\* C9: under every interleaving of start(), stop() and the timers at most
\* one jobLoop instance is active and at most one job is being processed.
C9_SingleLoop ==
    /\ Cardinality({l \in Loops : loop[l].pc \in Pending}) <= 1
    /\ Cardinality({l \in Loops : loop[l].pc \in Processing}) <= 1

\* A getJob call is issued only in a step that finds isRunning true.
C10_PollOnlyWhenRunning ==
    \A l \in Loops :
        (loop[l].pc # "polling" /\ loop'[l].pc = "polling") => isRunning

\* stop() leaves the loops alone, and an iteration in flight runs on to its
\* report and its sleep whatever the flag is.
C10_InFlightFinishes ==
    /\ (isRunning /\ ~isRunning') => loop' = loop
    /\ \A l \in Loops :
          (loop[l].pc \in Processing /\ loop'[l] # loop[l])
              => loop'[l].pc \in Processing \cup {"sleeping"}

Stopped == ~isRunning /\ startsLeft = 0

AllLoopsReturned == \A l \in Loops : loop[l].pc \in {"idle", "done"}

\* C10: termination is cooperative. After stop() no further getJob call is
\* issued, the flag is read only at the top of an iteration so the iteration
\* in flight finishes with its completion / error report, and once stop()
\* has been called and start() is not called again every loop eventually
\* terminates, given that the pending calls and timers return.
C10_CooperativeStop ==
    /\ [][C10_PollOnlyWhenRunning /\ C10_InFlightFinishes]_vars
    /\ (Stopped ~> AllLoopsReturned)

\* stop() was called while a job's completion report was in flight.
C10_Witness ==
    /\ Stopped
    /\ \E l \in Loops : loop[l].pc = "completing"
    /\ \E l \in Loops : loop[l].pc = "done"

\* A poll is issued only from the start of the loop or from the end of a
\* sleep; a settled poll leads into processing or into the sleep; a sleep is
\* followed by the next poll or by the end of the loop, never by a second
\* sleep; and the sleep entered lasts the interval in force at that moment,
\* doubled exactly when the caught error's message includes "429".
C11_Iteration ==
    \A l \in Loops :
        LET a == loop[l]
            b == loop'[l]
        IN  /\ (b.pc = "polling" /\ a.pc # "polling")
                 => a.pc \in {"sleeping", "fetchConfig"}
            /\ (a.pc = "polling" /\ b # a)
                 => b.pc \in Processing \cup {"sleeping"}
            /\ (a.pc \in Processing /\ b # a)
                 => b.pc \in Processing \cup {"sleeping"}
            /\ (a.pc = "sleeping" /\ b # a) => b.pc \in {"polling", "done"}
            /\ (b.pc = "sleeping" /\ a.pc # "sleeping")
                 => b.sleepMs = IF Includes(b.caught, "429") THEN 2 * jobInterval'
                                ELSE jobInterval'

\* C11: between two consecutive getJob calls of one job loop exactly one
\* sleep takes place whatever the iteration's outcome was, and it lasts the
\* effective interval, or twice that interval after a rate-limit error.
C11_OneSleepPerIteration == [][C11_Iteration]_vars

\* A loop asleep for the plain interval after an iteration that ended in an
\* error other than a rate limit.
C11_Witness ==
    \E l \in Loops :
        /\ loop[l].pc = "sleeping"
        /\ loop[l].caught # "none"
        /\ ~Includes(loop[l].caught, "429")
        /\ loop[l].sleepMs = jobInterval

\* A settled reportError, fulfilled or rejected, takes the loop to its sleep,
\* and a sleep that ends while isRunning is true issues the next poll.
C12_AfterReport ==
    \A l \in Loops :
        /\ (loop[l].pc = "reporting" /\ loop'[l] # loop[l])
              => loop'[l].pc = "sleeping"
        /\ (loop[l].pc = "sleeping" /\ loop'[l] # loop[l] /\ isRunning)
              => loop'[l].pc = "polling"

\* C12: a failed job never ends the polling: after the pipeline threw and
\* reportError was called (whether the report succeeded or failed itself),
\* the loop sleeps and then polls again unless isRunning was cleared.
C12_FailureKeepsPolling == [][C12_AfterReport]_vars

\* A loop asleep after a job failed and the report of the failure failed too.
C12_Witness ==
    \E l \in Loops :
        /\ loop[l].pc = "sleeping"
        /\ loop[l].errFrom = "report"
        /\ isRunning

\* C13: register of a name that is already registered throws and leaves the
\* registry as it was: the Map is unchanged, get(name) still returns the
\* instance registered first, and size is what it was.
C13_DuplicateRejected ==
    (regCall.op = "register" /\ Has(regCall.before, regCall.name))
        => /\ regCall.did.outcome = "throw"
           /\ regCall.arg.class # "Object"
                => regCall.did.message =
                      "Tool with name '" \o regCall.name \o "' is already registered"
           /\ tools = regCall.before
           /\ Get(tools, regCall.name).got = MapGet(regCall.before, regCall.name)
           /\ Size(tools) = Size(regCall.before)

\* A second instance was offered under the name of a registered one.
C13_Witness ==
    /\ regCall.op = "register"
    /\ Has(regCall.before, regCall.name)
    /\ regCall.arg.class = "MockTool"
    /\ regCall.arg # MapGet(regCall.before, regCall.name)
    /\ Size(tools) = 2

\* C14: get and execute of a name that is not registered throw an error whose
\* message names the requested tool and lists every registered name in
\* registration order, or 'none' for an empty registry; no tool's validate or
\* execute is invoked and the registry is unchanged.
C14_NotFoundListsTools ==
    (regCall.op \in {"get", "execute"} /\ ~Has(regCall.before, regCall.name))
        => /\ regCall.did.outcome = "throw"
           /\ Includes(regCall.did.message, "Tool '" \o regCall.name \o "' not found")
           /\ \A i \in 1..Len(regCall.before) :
                 Includes(regCall.did.message, regCall.before[i].name)
           /\ Includes(regCall.did.message,
                 "Available tools: " \o
                    (IF regCall.before = <<>> THEN "none"
                     ELSE Join(List(regCall.before), ", ")))
           /\ regCall.did.invoked = <<>>
           /\ tools = regCall.before

\* execute of an unknown name on a registry that holds two tools.
C14_Witness ==
    /\ regCall.op = "execute"
    /\ regCall.name = "non-existent"
    /\ Size(regCall.before) = 2
    /\ regCall.did.outcome = "throw"

\* C15: execute calls the tool's validate(params) first; when validate throws
\* its error is the outcome and the tool's execute is not invoked; when it
\* succeeds execute is invoked next and the ToolResult it returns is what
\* registry.execute returns.
C15_ValidateBeforeExecute ==
    (regCall.op = "execute" /\ Has(regCall.before, regCall.name))
        => LET tool == MapGet(regCall.before, regCall.name)
               v == ClassValidate(tool, regCall.params)
               r == ClassExecute(tool, regCall.params)
               inv == regCall.did.invoked
           IN  /\ Len(inv) >= 1 /\ inv[1] = Invoked("validate", tool)
               /\ v.kind = "throw"
                    => /\ regCall.did.outcome = "throw"
                       /\ regCall.did.message = v.message
                       /\ Len(inv) = 1
               /\ v.kind = "return"
                    => /\ inv = <<Invoked("validate", tool), Invoked("execute", tool)>>
                       /\ r.kind = "return"
                            => regCall.did.outcome = "return" /\ regCall.did.toolResult = r
                       /\ r.kind = "throw"
                            => regCall.did.outcome = "throw" /\ regCall.did.message = r.message

\* execute was refused by the tool's validate.
C15_Witness ==
    /\ regCall.op = "execute"
    /\ regCall.did.outcome = "throw"
    /\ regCall.did.message = "Value is required"
    /\ Len(regCall.did.invoked) = 1

\* C16: replaceVariables of the exact placeholder of a key of the mapping
\* returns a value strictly equal to the value stored under the key.
C16_RoundTrip ==
    subst.returned
        => \A i \in 1..Len(subst.variables.keys) :
              subst.given = Str("{{vars." \o subst.variables.keys[i] \o "}}")
                 => subst.result = subst.variables.items[i]

\* C17: a placeholder whose key is not in the mapping is left as it was
\* written, whatever whitespace it contained, the rest of the string is
\* unaffected, and a warning is logged.
C17_UnknownLeftVerbatim ==
    (/\ subst.returned
     /\ subst.given.t = "string"
     /\ MatchedKeys(subst.given.s, 1) # <<>>
     /\ \A i \in 1..Len(MatchedKeys(subst.given.s, 1)) :
           ~HasOwnProperty(subst.variables, MatchedKeys(subst.given.s, 1)[i]))
        => /\ subst.result = subst.given
           /\ Len(subst.warnings) = Len(MatchedKeys(subst.given.s, 1))

RECURSIVE ShapeKept(_, _)
\* out has the shape of in: strings stay strings and are the same when they
\* hold no placeholder, arrays keep their length and order, objects keep
\* their keys, and every other leaf is the same value.
ShapeKept(in, out) ==
    IF in.t = "string"
    THEN out.t = "string" /\ (MatchedKeys(in.s, 1) = <<>> => out.s = in.s)
    ELSE IF in.t \in {"array", "object"}
    THEN /\ out.t = in.t
         /\ out.keys = in.keys
         /\ Len(out.items) = Len(in.items)
         /\ \A i \in 1..Len(in.items) : ShapeKept(in.items[i], out.items[i])
    ELSE out = in

RECURSIVE HasPlaceholder(_)
HasPlaceholder(v) ==
    IF v.t = "string" THEN MatchedKeys(v.s, 1) # <<>>
    ELSE \E i \in 1..Len(v.items) : HasPlaceholder(v.items[i])

\* C18: replaceVariables preserves the shape of its input and changes only
\* string leaves that contain placeholders: arrays keep length and order,
\* objects keep exactly their keys (keys are never substituted), non-string
\* leaves are returned unchanged, the input is not mutated, and an input
\* without placeholders comes back equal.
C18_ShapePreserved ==
    subst.returned
        => /\ ShapeKept(subst.given, subst.result)
           /\ subst.target = subst.given
           /\ ~HasPlaceholder(subst.given) => subst.result = subst.given

\* An object with a placeholder leaf, a number leaf and a placeholder-like
\* key was substituted.
C18_Witness ==
    /\ subst.returned
    /\ subst.given.t = "object"
    /\ subst.given.keys = <<"use", "headers">>
    /\ subst.result # subst.given
    /\ subst.result.items[2].keys = <<"{{vars.a}}">>

\* C19: substitution is a single pass: a string value is inserted literally
\* even when it contains placeholder text (another variable's or its own),
\* and the text around the placeholder is kept.
C19_SinglePass ==
    subst.returned
        => \A i \in 1..Len(subst.variables.keys) :
              \A pre \in {"", "x "} :
                 (/\ subst.variables.items[i].t = "string"
                  /\ subst.given = Str(pre \o "{{vars." \o subst.variables.keys[i] \o "}}"))
                    => subst.result = Str(pre \o subst.variables.items[i].s)

\* The value of b, the placeholder of the known variable a, was inserted and
\* not expanded.
C19_Witness ==
    /\ subst.returned
    /\ subst.given = Str("x {{vars.b}}")
    /\ HasOwnProperty(subst.variables, "a")
    /\ HasOwnProperty(subst.variables, "b")
    /\ Prop(subst.variables, "b") = Str("{{vars.a}}")
    /\ subst.result = Str("x {{vars.a}}")

\* C20: the variables of a pipeline run are computed once from the job and
\* stay what they were: every step in flight is the step substituted against
\* that mapping, and a step's output mapping is never merged into it, so a
\* placeholder naming the output key of an earlier step (and no job variable)
\* reaches the tool as written.
C20_VariablesFixed ==
    \A l \in Loops :
        LET s == loop[l]
            variables == JobVariables(s.job)
        IN  s.pc \in Processing
              => /\ s.variables = variables
                 /\ s.pc = "inTool"
                      => /\ s.processed = ProcessedStep(s.job.steps[s.idx], variables)
                         /\ \A k \in 1..Len(s.outputs) :
                               (/\ ~HasOwnProperty(variables, s.outputs[k])
                                /\ s.job.steps[s.idx].url =
                                      "https://h/{{vars." \o s.outputs[k] \o "}}")
                                  => s.processed.url = s.job.steps[s.idx].url

\* A step whose url names the output key of an earlier, settled step is in
\* flight with the placeholder still in its url, while a job variable of the
\* same run was substituted.
C20_Witness ==
    \E l \in Loops :
        /\ loop[l].pc = "inTool"
        /\ loop[l].idx = 3
        /\ loop[l].job.steps = <<FetchOut, FetchUsesId, FetchUsesOutput>>
        /\ loop[l].outputs = <<"userData">>
        /\ loop[l].variables = Obj(<<"id">>, <<Str("8")>>)
        /\ loop[l].processed.url = "https://h/{{vars.userData}}"
        /\ loop[l].trace[3].ev = "dispatch"

\* The error evaluate raises for a MATCHES_PATTERN rule, "" when it raises
\* none.
PatternError(rule) ==
    LET e == Evaluate(rule.value, rule.operator, rule.expected, rule.caseSensitive)
    IN  IF rule.operator = "MATCHES_PATTERN" /\ e.kind = "throw" THEN e.message ELSE ""

GateExecuted == regCall.op = "execute" /\ regCall.name = "conditional-gate"
                    /\ Len(regCall.did.invoked) = 2

\* C21: a MATCHES_PATTERN gate whose expected is not a valid regular
\* expression always fails with a descriptive error and never passes, for
\* every value of throwOnFailure.
C21_InvalidPatternFails ==
    (/\ GateExecuted
     /\ regCall.params.rule.operator = "MATCHES_PATTERN"
     /\ \/ regCall.params.rule.expected.t # "string"
        \/ RegExpError(regCall.params.rule.expected.s) # "")
        => /\ regCall.did.outcome = "throw"
           /\ Includes(regCall.did.message, "Invalid regex pattern")

\* A pair of operands for each operator for which the condition holds and one
\* for which it does not (case-sensitive comparison).
GateCase(op, v, e, holds) == [op |-> op, value |-> v, expected |-> e, holds |-> holds]
OperatorCases ==
    {GateCase("EQUALS", Str("abc"), Str("abc"), TRUE),
     GateCase("EQUALS", Str("ABC"), Str("abc"), FALSE),
     GateCase("NOT_EQUALS", Str("ABC"), Str("abc"), TRUE),
     GateCase("NOT_EQUALS", Str("abc"), Str("abc"), FALSE),
     GateCase("CONTAINS", Str("abc"), Str("b"), TRUE),
     GateCase("CONTAINS", Str(""), Str("b"), FALSE),
     GateCase("NOT_CONTAINS", Str(""), Str("b"), TRUE),
     GateCase("NOT_CONTAINS", Str("abc"), Str("b"), FALSE),
     GateCase("GREATER_THAN", Num(7), Num(5), TRUE),
     GateCase("GREATER_THAN", Num(5), Str("5"), FALSE),
     GateCase("LESS_THAN", Null, Num(5), TRUE),
     GateCase("LESS_THAN", Num(7), Num(5), FALSE),
     GateCase("GREATER_THAN_OR_EQUAL", Str("5"), Num(5), TRUE),
     GateCase("GREATER_THAN_OR_EQUAL", Null, Num(5), FALSE),
     GateCase("LESS_THAN_OR_EQUAL", Num(5), Num(5), TRUE),
     GateCase("LESS_THAN_OR_EQUAL", Num(7), Str("5"), FALSE),
     GateCase("MATCHES_PATTERN", Str("abc"), Str("^a.c$"), TRUE),
     GateCase("MATCHES_PATTERN", Str("ABC"), Str("^a.c$"), FALSE),
     GateCase("IS_EMPTY", Str(""), Null, TRUE),
     GateCase("IS_EMPTY", Str("abc"), Null, FALSE),
     GateCase("IS_NOT_EMPTY", Arr(<<Num(5)>>), Null, TRUE),
     GateCase("IS_NOT_EMPTY", Arr(<<>>), Null, FALSE)}

\* C22: for each of the eleven operators, a gate whose condition holds returns
\* {result: true, shouldContinue: true}; one whose condition does not hold
\* throws errorMessage, or a generated 'Condition failed' message, when
\* throwOnFailure is true or omitted, and returns {result: false,
\* shouldContinue: false} when throwOnFailure is false.
C22_GateOutcome ==
    GateExecuted
        => LET rule == regCall.params.rule
               e == Evaluate(rule.value, rule.operator, rule.expected, rule.caseSensitive)
               did == regCall.did
           IN  /\ (e.kind = "return" /\ e.value)
                    => did.outcome = "return" /\ did.toolResult = Return("true", TRUE)
               /\ (e.kind = "return" /\ ~e.value /\ rule.throwOnFailure \in {"true", "omitted"})
                    => /\ did.outcome = "throw"
                       /\ rule.errorMessage # "" => did.message = rule.errorMessage
                       /\ rule.errorMessage = ""
                            => StartsWith(did.message, 1, "Condition failed: ")
               /\ (e.kind = "return" /\ ~e.value /\ rule.throwOnFailure = "false")
                    => did.outcome = "return" /\ did.toolResult = Return("false", FALSE)
               /\ \A c \in OperatorCases :
                     (/\ rule.operator = c.op /\ rule.value = c.value
                      /\ rule.expected = c.expected /\ rule.caseSensitive
                      /\ rule.throwOnFailure = "false")
                        => /\ did.outcome = "return"
                           /\ did.toolResult.shouldContinue = c.holds

\* A gate whose condition does not hold returned the stop result.
C22_Witness ==
    /\ GateExecuted
    /\ regCall.params.rule.operator = "LESS_THAN_OR_EQUAL"
    /\ regCall.params.rule.value = Num(7)
    /\ regCall.params.rule.throwOnFailure = "false"
    /\ regCall.did.toolResult = Return("false", FALSE)

\* C23: a CONTAINS or NOT_CONTAINS rule whose value or expected is not a
\* string is rejected by validate: execute is not invoked and no ToolResult
\* comes back, whatever throwOnFailure is.
C23_NonStringRejected ==
    (/\ regCall.op = "execute" /\ regCall.name = "conditional-gate"
     /\ regCall.params.hasRule
     /\ regCall.params.rule.operator \in {"CONTAINS", "NOT_CONTAINS"}
     /\ \/ regCall.params.rule.value.t # "string"
        \/ regCall.params.rule.expected.t # "string")
        => /\ regCall.did.outcome = "throw"
           /\ Len(regCall.did.invoked) = 1

FetchExecuted == regCall.op = "execute" /\ regCall.name = "fetch"
                     /\ Len(regCall.did.invoked) = 2

\* The run of processJob in which the first of two steps, a fetch, is in
\* flight.
FetchInFlight ==
    DispatchStep([BlankLoop("polling") EXCEPT
                     !.job = MkJob(TRUE, TRUE, <<FetchStep, GatePass>>, "other", TRUE)], 1)

\* C24: FetchTool.execute never throws because of an HTTP status: for every
\* status it returns a ToolResult with that status and shouldContinue true,
\* after which the pipeline keeps the result and dispatches the next step; it
\* throws only on a transport failure, with one of the four categorized
\* messages.
C24_StatusIsData ==
    FetchExecuted
        => LET p == regCall.params
               did == regCall.did
           IN  /\ p.reply.kind = "response"
                    => /\ did.outcome = "return"
                       /\ ResultStatus(did.toolResult.result) = p.reply.status
                       /\ did.toolResult.shouldContinue
                       /\ LET after == StepReturned(FetchInFlight, did.toolResult)
                          IN  /\ after.pc = "inTool" /\ after.idx = 2
                              /\ after.result = did.toolResult.result
               /\ p.reply.kind = "error"
                    => /\ did.outcome = "throw"
                       /\ \/ did.message = "Request timeout after "
                                              \o Digits(FetchTimeout(p)) \o "ms"
                          \/ did.message = "Host not found: " \o p.url
                          \/ did.message = "Connection refused: " \o p.url
                          \/ did.message = "Network error: " \o p.reply.message
               /\ did.outcome = "throw" => p.reply.kind = "error"

\* A fetch that was answered with a server error returned it as data.
C24_Witness ==
    /\ FetchExecuted
    /\ regCall.params.reply = Response(503)
    /\ regCall.did.outcome = "return"
    /\ regCall.did.toolResult.result = "resp503"

\* C25: every page OffscreenTool.execute acquires with browser.newPage() is
\* closed exactly once before execute returns or throws, whichever way it
\* leaves (extraction succeeded, navigation failed, evaluation failed): close
\* is never called twice on a page, and once execute has settled the page it
\* acquired has had its one close call and no page of the tool is open.
C25_PageClosedOnce ==
    offscreen.via = "tool" =>
        /\ offscreen.closes <= 1
        /\ offscreen.pc = "done" =>
              /\ offscreen.open["tool"] = 0
              /\ offscreen.acquired => offscreen.closes = 1
        /\ offscreen.pc \in {"goto", "evaluate"} =>
              offscreen.acquired /\ offscreen.closes = 0 /\ offscreen.open["tool"] = 1
\* A second execute call has thrown the navigation error after acquiring a
\* page, and the page has been closed.
C25_Witness ==
    /\ offscreen.via = "tool"
    /\ offscreen.calls = MaxCalls
    /\ offscreen.pc = "done"
    /\ offscreen.acquired
    /\ offscreen.outcome = Throw("Navigation timeout of 60000 ms exceeded")
    /\ offscreen.closes = 1
    /\ offscreen.open["tool"] = 0

\* C26: every page the offscreen tool navigates had request interception
\* installed before the navigation, and every intercepted request continues
\* without the iframe-blocking headers (X-Frame-Options, the CSP family) and
\* without the sec-fetch-* headers.
C26_InterceptedBeforeNavigation ==
    /\ (offscreen.via = "tool" /\ offscreen.navigated) => offscreen.interception
    /\ (offscreen.request.made /\ offscreen.request.intercepted) =>
          offscreen.request.headers \cap (headersToStrip \cup SecFetchHeaders) = {}

\* The number of tool dispatches in a trace.
DispatchCount(trace) == Cardinality({i \in 1..Len(trace) : trace[i].ev = "dispatch"})
RecognizedTypes == {"offscreen", "fetch-and-extract"}

StepReturnedResult(s) ==
    \E k \in 1..Len(s.trace) : s.trace[k].ev = "return" /\ s.trace[k].step > 0
\* The legacy fallback was entered: it dispatched, or it set the skipped
\* result.
FallbackEntered(s) ==
    \/ \E k \in 1..Len(s.trace) : s.trace[k] = Ev("dispatch", 0, TRUE, "")
    \/ s.result = "skipped"

\* C28: a step's ToolResult.result that is non-null (false included) becomes
\* the running result and marks the job executed, and the legacy fallback is
\* entered only when no dispatched step returned a non-null result.
C28_NonNullResultStored ==
    \A l \in Loops :
        LET s == loop[l] IN
        s.pc \in Processing =>
            /\ s.stopResult \notin {"none", "null"} =>
                  s.executed /\ s.result = s.stopResult
            /\ FallbackEntered(s) => ~StepReturnedResult(s)

C30_ConfigApplied ==
    \A l \in Loops :
        (loop[l].pc = "fetchConfig" /\ loop'[l].pc # "fetchConfig") =>
            /\ lastConfig'.kind = "delay" => jobInterval' = lastConfig'.delay * 1000 + 5000
            /\ lastConfig'.kind = "empty" => jobInterval' = jobInterval
\* A step that puts a loop to sleep takes the interval in force: as it is
\* after an iteration without error, as it is or doubled in the catch block.
C30_SleepUsesInterval ==
    \A l \in Loops :
        (loop[l].pc # "sleeping" /\ loop'[l].pc = "sleeping") =>
            IF loop'[l].errFrom = "none" THEN loop'[l].sleepMs = jobInterval
            ELSE loop'[l].sleepMs \in {jobInterval, 2 * jobInterval}

\* C30: after a successful fetchConfiguration in which the server supplies
\* job_execution_delay = d seconds, the poll interval is exactly
\* d * 1000 + 5000 ms, and it is the interval the job loop takes for the
\* sleeps that follow; when the server omits the field the interval keeps
\* its previous value.
C30_IntervalFromConfig ==
    /\ [](lastConfig.kind = "delay" => jobInterval = lastConfig.delay * 1000 + 5000)
    /\ [][C30_ConfigApplied /\ C30_SleepUsesInterval]_vars
\* The server configured a delay of 10 s and a loop sleeps 15000 ms after an
\* iteration without error.
C30_Witness ==
    /\ lastConfig = [kind |-> "delay", delay |-> 10]
    /\ jobInterval = 15000
    /\ \E l \in Loops :
          /\ loop[l].pc = "sleeping"
          /\ loop[l].errFrom = "none"
          /\ loop[l].sleepMs = 15000

\* A step in which start() resumes after fetchConfiguration: start() goes on
\* to create the ping timer and to call jobLoop (which polls, or returns at
\* once when stop() came first), whatever the configuration call did; and
\* when the call failed or returned nothing, jobInterval and lastFetch keep
\* their values.
C31_StartSurvives ==
    \A l \in Loops :
        (loop[l].pc = "fetchConfig" /\ loop'[l].pc # "fetchConfig") =>
            /\ pingTimers' = pingTimers + 1
            /\ loop'[l].pc = IF isRunning THEN "polling" ELSE "done"
            /\ lastConfig'.kind \in {"throw", "nothing"} =>
                  jobInterval' = jobInterval /\ lastFetch' = lastFetch

\* C31: fetchConfiguration never throws; when the configuration call fails
\* or returns nothing the configuration and lastFetch are left unchanged, and
\* start() still starts the ping timer and the job loop.
C31_ConfigFailureTolerated ==
    /\ [](lastFetch = 0 => jobInterval = JOB_INTERVAL)
    /\ [][C31_StartSurvives]_vars
\* The second start() found the configuration call failing after the first
\* had applied a delay of 10 s: the interval and lastFetch of the first call
\* are in force and the loop polls.
C31_Witness ==
    /\ lastConfig.kind = "throw"
    /\ lastFetch = 1
    /\ jobInterval = 15000
    /\ pingTimers = 2
    /\ loop[2].pc = "polling"

\* C32: while the worker runs the configuration is fetched again, so a
\* job_execution_delay of d seconds held by the server eventually becomes the
\* interval d * 1000 + 5000 the job loop sleeps (unless the worker is stopped
\* or the server changes the delay again first).
C32_ServerChangeReachesLoop ==
    \A d \in ServerDelays :
        (isRunning /\ server.delay = d)
            ~> (~isRunning \/ server.delay # d \/ jobInterval = d * 1000 + 5000)

\* C33: ToolRegistry.execute of a name that is not registered rejects with an
\* error whose message contains the text 'Tool not found'.
C33_ToolNotFoundText ==
    (regCall.op = "execute" /\ ~Has(regCall.before, regCall.name))
        => /\ regCall.did.outcome = "throw"
           /\ Includes(regCall.did.message, "Tool not found")

\* The errors OffscreenTool.execute fails with before it navigates.
BeforeNavigationErrors ==
    {"Browser not initialized. Call setBrowser() first.",
     "this.browser.newPage is not a function"}

\* C34: whenever JobManager dispatches the 'offscreen' tool, the tool's
\* browser is an initialized handle that supports newPage(): no dispatch of
\* the tool (as a step, or as step 0 by the legacy fallback) with parameters
\* its validate accepts fails before navigation.
C34_OffscreenHasBrowser ==
    \A l \in Loops :
        LET s == loop[l] IN
        \A k \in 1..Len(s.trace) :
            (/\ Settled(s.trace[k])
             /\ \/ s.trace[k].step = 0
                \/ s.trace[k].step > 0 /\ s.job.steps[s.trace[k].step].use = "offscreen"
             /\ s.processed.valid)
                => s.trace[k].msg \notin BeforeNavigationErrors

\* C35: after a step of a job has returned shouldContinue=false no further
\* tool is dispatched for that job, neither a later step nor the 'offscreen'
\* tool of the legacy fallback.
C35_NothingAfterStop ==
    \A l \in Loops :
        LET s == loop[l] IN
        \A j, k \in 1..Len(s.trace) :
            (j < k /\ s.trace[j].ev = "return" /\ s.trace[j].cont = FALSE)
                => s.trace[k].ev # "dispatch"

\* A loop that leaves the processing of a job (for its sleep, the only way
\* to the next getJob call) has issued completeJob or reportError for it.
C36_ReportBeforeLeaving ==
    \A l \in Loops :
        /\ (loop[l].pc = "polling" /\ loop'[l].job # NoJob) => loop'[l].pc \in Processing
        /\ (loop[l].pc \in Processing /\ loop'[l].pc \notin Processing) =>
              /\ loop'[l].pc = "sleeping"
              /\ loop[l].pc \in {"completing", "reporting"}
              /\ loop[l].completeArg # "NOCALL" \/ loop[l].reportArg # NoReport

\* C36: for every job the loop receives, completeJob or reportError is
\* invoked for it before the loop's next getJob call, on every path through
\* processJob: a received job takes processJob into a state that awaits a
\* tool or a report, a report in flight carries its argument, and processing
\* is left only after a report was issued.
C36_AlwaysReported ==
    /\ [](\A l \in Loops :
            /\ loop[l].pc = "completing" => loop[l].completeArg # "NOCALL"
            /\ loop[l].pc = "reporting" => loop[l].reportArg # NoReport)
    /\ [][C36_ReportBeforeLeaving]_vars
\* The error report of a job whose second step threw is in flight, no
\* completion having been issued.
C36_Witness ==
    \E l \in Loops :
        /\ loop[l].pc = "reporting"
        /\ Len(loop[l].trace) = 4
        /\ loop[l].trace[4].ev = "throw"
        /\ loop[l].completeArg = "NOCALL"
        /\ loop[l].reportArg.kind = "PROCESSING_FAILED"

\* list() has no duplicates, size is its length, has(n) holds exactly for
\* the names in list(), and get(n).name = n for each of them.
C37_Consistent ==
    LET names == List(tools) IN
    /\ \A i, j \in 1..Len(names) : names[i] = names[j] => i = j
    /\ Size(tools) = Len(names)
    /\ \A n \in LookupNames : Has(tools, n) <=> \E i \in 1..Len(names) : names[i] = n
    /\ \A i \in 1..Len(names) :
          /\ Has(tools, names[i])
          /\ Get(tools, names[i]).outcome = "return"
          /\ Get(tools, names[i]).got.name = names[i]
\* A call on the registry changes list() as its registrations say: a
\* register that returns appends its tool's name, one that throws changes
\* nothing, registerAll appends the names of its register calls that
\* returned, in their order, clear empties it, get and execute leave it.
C37_ListFollowsCalls ==
    LET call == regCall'
        registered == [i \in 1..Len(call.did.invoked) |-> call.did.invoked[i].tool.name]
    IN  regCall' # regCall =>
          CASE call.op = "register" ->
                 IF call.did.outcome = "return"
                 THEN List(tools') = Append(List(tools), call.arg.name)
                 ELSE tools' = tools
            [] call.op = "registerAll" ->
                 /\ List(tools') = List(tools) \o registered
                 /\ call.did.outcome = "return" \/ call.did.message # ""
            [] call.op = "clear" -> List(tools') = <<>>
            [] OTHER -> tools' = tools

\* C37: after any sequence of register, registerAll and clear calls, list()
\* is the sequence of names of the successful registrations since the last
\* clear, in registration order and without duplicates; size equals its
\* length, has(n) holds exactly for the names in list(), and get(n).name = n.
C37_ListIsRegistrationOrder ==
    /\ []C37_Consistent
    /\ [][C37_ListFollowsCalls]_vars
\* A registerAll call of two tools threw at its second tool on a registry
\* that held one tool: the first tool of the batch stays registered, last.
C37_Witness ==
    /\ regCall.op = "registerAll"
    /\ regCall.did.outcome = "throw"
    /\ Len(regCall.did.invoked) = 1
    /\ Size(regCall.before) = 1
    /\ List(tools) = <<"tool2", "tool1">>

\* The values IS_EMPTY passes for: null, undefined, the empty string, the
\* array of no elements and the object of no keys.
EmptyValues == {Null, Undefined, Str(""), Arr(<<>>), Obj(<<>>, <<>>)}

\* evaluate returned (did not throw) and exactly one of the two calls passed.
Complementary(a, b) ==
    /\ a.kind = "return"
    /\ b.kind = "return"
    /\ a.value # b.value

\* C38: for the inputs of every evaluated rule and its caseSensitive flag,
\* exactly one of IS_EMPTY and IS_NOT_EMPTY passes (IS_EMPTY exactly for
\* null, undefined, '', [] and {}), exactly one of EQUALS and NOT_EQUALS
\* passes, and for string operands exactly one of CONTAINS and NOT_CONTAINS
\* passes.
C38_PairedOperatorsComplement ==
    (regCall.op = "execute" /\ regCall.name = "conditional-gate" /\ regCall.params.hasRule)
        => LET rule == regCall.params.rule
               pass(op) == Evaluate(rule.value, op, rule.expected, rule.caseSensitive)
           IN  /\ Complementary(pass("IS_EMPTY"), pass("IS_NOT_EMPTY"))
               /\ pass("IS_EMPTY").value = (rule.value \in EmptyValues)
               /\ Complementary(pass("EQUALS"), pass("NOT_EQUALS"))
               /\ (TypeOf(rule.value) = "string" /\ TypeOf(rule.expected) = "string")
                     => Complementary(pass("CONTAINS"), pass("NOT_CONTAINS"))

\* A rule asking IS_NOT_EMPTY of the object of no keys was evaluated and did
\* not pass, with throwOnFailure off.
C38_Witness ==
    /\ regCall.op = "execute"
    /\ regCall.name = "conditional-gate"
    /\ regCall.params.hasRule
    /\ regCall.params.rule.value = Obj(<<>>, <<>>)
    /\ regCall.params.rule.operator = "IS_NOT_EMPTY"
    /\ regCall.params.rule.throwOnFailure = "false"
    /\ regCall.did.outcome = "return"
    /\ Evaluate(Obj(<<>>, <<>>), "IS_EMPTY", Undefined, TRUE).value
    /\ ~Evaluate(Obj(<<>>, <<>>), "IS_NOT_EMPTY", Undefined, TRUE).value

\* C39: a stopped worker has no ping timer alive and no more than one ping
\* timer is alive at any time, over every sequence of start() and stop().
C39_PingTimerCancelled ==
    /\ pingTimers <= 1
    /\ ~isRunning => pingTimers = 0

====
